---------------------------- MODULE Spec2Model ----------------------------
(***************************************************************************)
(* Model of the data-transformation core of the survival dashboard         *)
(* (lib/survival-utils): stage encoding, CSV parsing, risk classification, *)
(* id-column detection, survival-curve lookup and CSV export.              *)
(*                                                                         *)
(* Text is modelled as a sequence of one-character strings, so that        *)
(* trimming, splitting, quoting and number parsing are computed character  *)
(* by character as the code does.  A JavaScript value is a record          *)
(*   [t, n, d, s]   t in {"null","undef","nan","inf","num","str"}          *)
(* where a number is the decimal fixed-point value n / 10^d (normalised:   *)
(* d = 0 or n not divisible by 10) and s is the text of a string.          *)
(***************************************************************************)
EXTENDS Integers, Sequences, FiniteSets, TLC

\* call: the function invoked; arg: its argument(s); pc: "called" before the
\* function has run and "returned" after; ret: what it returned
\* a call of a function: its name, its argument, where it stands, its result
VARIABLES call, arg, pc, ret

\* the state of the Index page
VARIABLES modelFile, dataFile, patientData, columns, idColumn, modelBundle,
          results, isProcessing, selectedTimepoints, selectedPatient

\* the state of the PatientDataEditor the page shows
VARIABLES editingCell, editValue

\* the file reads and the prediction run that are under way, and the user's
\* operations counted
VARIABLES reads, run, used

caller == <<call, arg, pc, ret>>

page ==
  <<modelFile, dataFile, patientData, columns, idColumn, modelBundle, results,
    isProcessing, selectedTimepoints, selectedPatient, editingCell, editValue,
    reads, run, used>>

vars == <<caller, page>>

\* ------------------------------------------------------------------ bounds

\* longest free part of a stage text
MaxBody == 3
\* longest CSV line handed to parseCSVLine
MaxLineLen == 6
\* longest text of one CSV data field
MaxFieldLen == 4
\* most rows of an exported dataset
MaxRows == 2
\* most columns handed to detectIdColumn
MaxCols == 3
\* most samples of a survival curve
MaxSamples == 3
\* longest text of several lines handed to parseCSV
MaxTextLen == 5
\* most file reads under way at once
MaxReads == 1
\* most operations of the user on the data, the settings and the predictions:
\* files handed over, timepoints toggled, cells and rows edited, runs started
MaxSteps == 3

\* ------------------------------------------------------- JavaScript values

Null == [t |-> "null", n |-> 0, d |-> 0, s |-> <<>>]
Undefined == [t |-> "undef", n |-> 0, d |-> 0, s |-> <<>>]
NaN == [t |-> "nan", n |-> 0, d |-> 0, s |-> <<>>]
\* +Infinity (sign 1) or -Infinity (sign -1)
Infinity(sign) == [t |-> "inf", n |-> sign, d |-> 0, s |-> <<>>]
Str(chars) == [t |-> "str", n |-> 0, d |-> 0, s |-> chars]

RECURSIVE Norm(_, _)
\* the normal form of n / 10^d
Norm(n, d) ==
  IF d > 0 /\ n % 10 = 0 THEN Norm(n \div 10, d - 1) ELSE <<n, d>>

Num(n, d) == [t |-> "num", n |-> Norm(n, d)[1], d |-> Norm(n, d)[2], s |-> <<>>]

Whole(n) == Num(n, 0)

\* a <= b for two finite numbers
NumLeq(a, b) == a.n * 10 ^ b.d <= b.n * 10 ^ a.d

\* ToNumber as the relational operators apply it to null and to numbers
ToNumber(v) ==
  CASE v.t = "null" -> Whole(0)
    [] v.t = "undef" -> NaN
    [] OTHER -> v

\* JavaScript a <= b on values that are numbers, null or undefined
JsLeq(a, b) ==
  LET x == ToNumber(a)
      y == ToNumber(b)
  IN  CASE x.t = "nan" \/ y.t = "nan" -> FALSE
        [] x.t = "inf" /\ y.t = "inf" -> x.n <= y.n
        [] x.t = "inf" -> x.n < 0
        [] y.t = "inf" -> y.n > 0
        [] OTHER -> NumLeq(x, y)

\* ------------------------------------------------------------ characters

LowerChars == <<"a","b","c","d","e","f","g","h","i","j","k","l","m",
                "n","o","p","q","r","s","t","u","v","w","x","y","z">>
UpperChars == <<"A","B","C","D","E","F","G","H","I","J","K","L","M",
                "N","O","P","Q","R","S","T","U","V","W","X","Y","Z">>
DigitChars == <<"0","1","2","3","4","5","6","7","8","9">>

\* String.prototype.toUpperCase on one character
UpperChar(c) ==
  IF \E i \in 1..26 : LowerChars[i] = c
  THEN UpperChars[CHOOSE i \in 1..26 : LowerChars[i] = c]
  ELSE c

toUpperCase(s) == [i \in 1..Len(s) |-> UpperChar(s[i])]

\* String.prototype.toLowerCase on one character
LowerChar(c) ==
  IF \E i \in 1..26 : UpperChars[i] = c
  THEN LowerChars[CHOOSE i \in 1..26 : UpperChars[i] = c]
  ELSE c

toLowerCase(s) == [i \in 1..Len(s) |-> LowerChar(s[i])]

\* String.prototype.endsWith
endsWith(s, suffix) ==
  Len(s) >= Len(suffix) /\ SubSeq(s, Len(s) - Len(suffix) + 1, Len(s)) = suffix

IsDigit(c) == \E i \in 1..10 : DigitChars[i] = c
DigitVal(c) == (CHOOSE i \in 1..10 : DigitChars[i] = c) - 1

\* white space as String.prototype.trim and the regular expression \s see it
\* (of the characters that occur in the texts of this model)
IsSpace(c) == c \in {" ", "\t", "\r", "\n"}

RECURSIVE TrimStart(_)
TrimStart(s) ==
  IF s # <<>> /\ IsSpace(Head(s)) THEN TrimStart(Tail(s)) ELSE s

RECURSIVE TrimEnd(_)
TrimEnd(s) ==
  IF s # <<>> /\ IsSpace(s[Len(s)]) THEN TrimEnd(SubSeq(s, 1, Len(s) - 1)) ELSE s

\* String.prototype.trim
trim(s) == TrimEnd(TrimStart(s))

\* all texts over alphabet of length at most n
TextsUpTo(alphabet, n) == UNION {[1..k -> alphabet] : k \in 0..n}

\* ------------------------------------------------------- numeric literals

RECURSIVE ScanDigits(_, _)
\* the index after the run of decimal digits that starts at i
ScanDigits(s, i) ==
  IF i <= Len(s) /\ IsDigit(s[i]) THEN ScanDigits(s, i + 1) ELSE i

RECURSIVE DigitsValue(_, _, _, _)
\* the value of the decimal digits s[i..j-1], appended to acc
DigitsValue(s, i, j, acc) ==
  IF i >= j THEN acc ELSE DigitsValue(s, i + 1, j, acc * 10 + DigitVal(s[i]))

CharAt(s, i) == IF i >= 1 /\ i <= Len(s) THEN s[i] ELSE ""

\* whether text w occurs in s at index i
StartsWithAt(s, i, w) ==
  /\ i + Len(w) - 1 <= Len(s)
  /\ \A k \in 1..Len(w) : s[i + k - 1] = w[k]

InfinityWord == <<"I","n","f","i","n","i","t","y">>

\* StrUnsignedDecimalLiteral read at index i, multiplied by sign:
\* digits [. digits] | . digits, then an optional exponent part.
\* [ok, end, val]: end is the index after the literal
StrDecimal(s, i, sign) ==
  LET a == ScanDigits(s, i)
      hasDot == CharAt(s, a) = "."
      b == IF hasDot THEN ScanDigits(s, a + 1) ELSE a
      intN == a - i
      fracN == IF hasDot THEN b - (a + 1) ELSE 0
      mant == DigitsValue(s, a + 1, b, DigitsValue(s, i, a, 0))
      hasE == CharAt(s, b) \in {"e", "E"}
      signed == CharAt(s, b + 1) \in {"+", "-"}
      c == IF signed THEN b + 2 ELSE b + 1
      e == ScanDigits(s, c)
      expOk == hasE /\ e > c
      expVal == IF ~expOk THEN 0
                ELSE IF CharAt(s, b + 1) = "-" THEN 0 - DigitsValue(s, c, e, 0)
                ELSE DigitsValue(s, c, e, 0)
      p == expVal - fracN
  IN  IF intN + fracN = 0
      THEN [ok |-> FALSE, end |-> i, val |-> NaN]
      ELSE [ok |-> TRUE,
            end |-> IF expOk THEN e ELSE b,
            val |-> IF p >= 0 THEN Num(sign * mant * 10 ^ p, 0)
                    ELSE Num(sign * mant, 0 - p)]

\* StrDecimalLiteral read at index i: an optional sign, then Infinity or digits
SignedDecimal(s, i) ==
  LET sign == IF CharAt(s, i) = "-" THEN 0 - 1 ELSE 1
      j == IF CharAt(s, i) \in {"+", "-"} THEN i + 1 ELSE i
  IN  IF StartsWithAt(s, j, InfinityWord)
      THEN [ok |-> TRUE, end |-> j + Len(InfinityWord), val |-> Infinity(sign)]
      ELSE StrDecimal(s, j, sign)

\* parseFloat: the longest numeric prefix after leading white space, else NaN
parseFloat(s) ==
  LET r == SignedDecimal(TrimStart(s), 1)
  IN  IF r.ok THEN r.val ELSE NaN

HexChars == <<"0","1","2","3","4","5","6","7","8","9","A","B","C","D","E","F">>

\* the value of c as a digit in the given radix, -1 when it is none
RadixDigit(c, radix) ==
  IF \E i \in 1..radix : HexChars[i] = UpperChar(c)
  THEN (CHOOSE i \in 1..radix : HexChars[i] = UpperChar(c)) - 1
  ELSE 0 - 1

RECURSIVE RadixValue(_, _, _, _)
\* the value of s[i..] in the radix appended to acc, -1 when a character is no digit
RadixValue(s, i, radix, acc) ==
  IF i > Len(s) THEN acc
  ELSE IF RadixDigit(s[i], radix) < 0 THEN 0 - 1
  ELSE RadixValue(s, i + 1, radix, acc * radix + RadixDigit(s[i], radix))

\* the radix a 0x / 0o / 0b prefix selects, 0 when the text has none
PrefixRadix(s) ==
  IF Len(s) < 3 \/ s[1] # "0" THEN 0
  ELSE CASE s[2] \in {"x", "X"} -> 16
         [] s[2] \in {"o", "O"} -> 8
         [] s[2] \in {"b", "B"} -> 2
         [] OTHER -> 0

\* Number(text): StringToNumber.  The whole trimmed text must be a numeric
\* literal: empty is 0, 0x/0o/0b literals are read in their radix, a decimal
\* literal may carry a sign, a fraction and an exponent; anything else is NaN
StringToNumber(text) ==
  LET s == trim(text)
      radix == PrefixRadix(s)
      r == SignedDecimal(s, 1)
  IN  IF s = <<>> THEN Whole(0)
      ELSE IF radix > 0
           THEN IF RadixValue(s, 3, radix, 0) >= 0
                THEN Whole(RadixValue(s, 3, radix, 0)) ELSE NaN
      ELSE IF r.ok /\ r.end = Len(s) + 1 THEN r.val
      ELSE NaN

RECURSIVE NatText(_)
\* the decimal digits of n >= 0
NatText(n) ==
  IF n < 10 THEN <<DigitChars[n + 1]>>
  ELSE NatText(n \div 10) \o <<DigitChars[(n % 10) + 1]>>

RECURSIVE ZeroPad(_, _)
\* digits left-padded with zeros to width w
ZeroPad(digits, w) ==
  IF Len(digits) >= w THEN digits ELSE ZeroPad(<<"0">> \o digits, w)

\* Number::toString for a finite number in the range printed in plain decimal
NumberText(n, d) ==
  LET m == IF n < 0 THEN 0 - n ELSE n
      whole == NatText(m \div (10 ^ d))
      frac == IF d = 0 THEN <<>>
              ELSE <<".">> \o ZeroPad(NatText(m % (10 ^ d)), d)
  IN  (IF n < 0 THEN <<"-">> ELSE <<>>) \o whole \o frac

\* String(value)
String(v) ==
  CASE v.t = "str" -> v.s
    [] v.t = "num" -> NumberText(v.n, v.d)
    [] v.t = "nan" -> <<"N","a","N">>
    [] v.t = "inf" -> (IF v.n < 0 THEN <<"-">> ELSE <<>>) \o InfinityWord
    [] v.t = "null" -> <<"n","u","l","l">>
    [] OTHER -> <<"u","n","d","e","f","i","n","e","d">>

\* -------------------------------------------------------- parseStageOrdinal

ROMAN_MAP ==
  (<<"I">> :> 1) @@ (<<"I","I">> :> 2) @@ (<<"I","I","I">> :> 3)
    @@ (<<"I","V">> :> 4) @@ (<<"V">> :> 5)

StageWord == <<"S","T","A","G","E">>

RECURSIVE SkipSpaces(_, _)
\* \s* from index i: the index after the white space
SkipSpaces(s, i) ==
  IF i <= Len(s) /\ IsSpace(s[i]) THEN SkipSpaces(s, i + 1) ELSE i

RECURSIVE ScanRoman(_, _)
\* [IVX]+ under the i flag, from index i: the index after the letters
ScanRoman(s, i) ==
  IF i <= Len(s) /\ UpperChar(s[i]) \in {"I", "V", "X"}
  THEN ScanRoman(s, i + 1) ELSE i

\* the pattern Stage\s*([IVX]+) with the i flag tried at index i
StageAt(s, i) ==
  LET j == SkipSpaces(s, i + 5)
      k == ScanRoman(s, j)
  IN  IF StartsWithAt(toUpperCase(s), i, StageWord) /\ k > j
      THEN [found |-> TRUE, roman |-> SubSeq(s, j, k - 1)]
      ELSE [found |-> FALSE, roman |-> <<>>]

RECURSIVE StageFrom(_, _)
\* String.prototype.match: the leftmost match at index i or later
StageFrom(s, i) ==
  IF i > Len(s) THEN [found |-> FALSE, roman |-> <<>>]
  ELSE IF StageAt(s, i).found THEN StageAt(s, i)
  ELSE StageFrom(s, i + 1)

StageMatch(s) == StageFrom(s, 1)

\* the table value of a numeral, 0 for a numeral the table lacks
RomanLookup(roman) ==
  IF roman \in DOMAIN ROMAN_MAP THEN ROMAN_MAP[roman] ELSE 0

\* the result returned without the isNaN test
NumOrZero_unchecked(num) == num

\* isNaN(num) ? 0 : num
NumOrZero(num) == IF num.t = "nan" THEN Whole(0) ELSE num

\* the numeric branch reading the whole text with Number instead of parseFloat
PlainOrdinal_wholeText(s) ==
  LET plain == toUpperCase(trim(s))
  IN  IF plain \in DOMAIN ROMAN_MAP THEN Whole(ROMAN_MAP[plain])
      ELSE NumOrZero(StringToNumber(plain))

\* the plain-numeral and numeric branches, on the stringified input
PlainOrdinal(s) ==
  LET plain == toUpperCase(trim(s))
  IN  IF plain \in DOMAIN ROMAN_MAP THEN Whole(ROMAN_MAP[plain])
      ELSE NumOrZero(parseFloat(plain))

\* parseStageOrdinal falling through to the later branches when the matched
\* numeral is not in the table
parseStageOrdinal_fallThrough(stageVal) ==
  IF stageVal.t \in {"null", "undef"} THEN Whole(0)
  ELSE IF stageVal.t = "nan" THEN Whole(0)
  ELSE LET s == String(stageVal)
           match == StageMatch(s)
       IN  IF match.found /\ RomanLookup(toUpperCase(match.roman)) # 0
           THEN Whole(RomanLookup(toUpperCase(match.roman)))
           ELSE PlainOrdinal(s)

parseStageOrdinal(stageVal) ==
  IF stageVal.t \in {"null", "undef"} THEN Whole(0)
  ELSE IF stageVal.t = "nan" THEN Whole(0)
  ELSE LET s == String(stageVal)
           match == StageMatch(s)
       IN  IF match.found THEN Whole(RomanLookup(toUpperCase(match.roman)))
           ELSE PlainOrdinal(s)

\* -------------------------------------------------------------- objects

\* An object is the sequence of its own properties [key, val] in the order
\* Object.keys and forEach enumerate them: array-index keys first, ascending,
\* then the other keys in the order they were first set.

RECURSIVE AllDigits(_)
AllDigits(key) ==
  key = <<>> \/ (IsDigit(Head(key)) /\ AllDigits(Tail(key)))

RECURSIVE DigitsLess(_, _)
\* a < b for two digit texts of the same length
DigitsLess(a, b) ==
  /\ a # <<>>
  /\ \/ DigitVal(Head(a)) < DigitVal(Head(b))
     \/ Head(a) = Head(b) /\ DigitsLess(Tail(a), Tail(b))

\* a < b for two canonical array indices
IndexLess(a, b) ==
  Len(a) < Len(b) \/ (Len(a) = Len(b) /\ DigitsLess(a, b))

\* 2^32 - 1, which is no array index
IndexLimit == <<"4","2","9","4","9","6","7","2","9","5">>

\* a canonical array index: "0", or digits without a leading zero, below 2^32 - 1
IsArrayIndex(key) ==
  /\ key # <<>>
  /\ AllDigits(key)
  /\ (Len(key) = 1 \/ key[1] # "0")
  /\ IndexLess(key, IndexLimit)

HasKey(obj, key) == \E i \in 1..Len(obj) : obj[i].key = key

\* obj[key]
ObjGet(obj, key) ==
  IF HasKey(obj, key)
  THEN obj[CHOOSE i \in 1..Len(obj) : obj[i].key = key].val
  ELSE Undefined

\* how many properties enumerate before a new property key
SlotBefore(obj, key) ==
  IF IsArrayIndex(key)
  THEN Cardinality({i \in 1..Len(obj) :
         IsArrayIndex(obj[i].key) /\ IndexLess(obj[i].key, key)})
  ELSE Len(obj)

\* obj[key] = val
ObjSet(obj, key, val) ==
  IF HasKey(obj, key)
  THEN [i \in 1..Len(obj) |->
          IF obj[i].key = key THEN [key |-> key, val |-> val] ELSE obj[i]]
  ELSE SubSeq(obj, 1, SlotBefore(obj, key))
         \o <<[key |-> key, val |-> val]>>
         \o SubSeq(obj, SlotBefore(obj, key) + 1, Len(obj))

\* Object.keys(obj)
ObjKeys(obj) == [i \in 1..Len(obj) |-> obj[i].key]

\* the record with the given keys set in order
RECURSIVE MakeRow(_, _, _)
MakeRow(keys, vals, row) ==
  IF keys = <<>> THEN row
  ELSE MakeRow(Tail(keys), Tail(vals), ObjSet(row, Head(keys), Head(vals)))

\* ------------------------------------------------------------ parseCSVLine

RECURSIVE LineLoop(_, _, _, _, _)
\* the character loop at index i, and the final push
LineLoop(line, i, result, current, inQuotes) ==
  IF i > Len(line) THEN Append(result, trim(current))
  ELSE IF line[i] = "\"" THEN LineLoop(line, i + 1, result, current, ~inQuotes)
  ELSE IF line[i] = "," /\ ~inQuotes
       THEN LineLoop(line, i + 1, Append(result, trim(current)), <<>>, inQuotes)
  ELSE LineLoop(line, i + 1, result, Append(current, line[i]), inQuotes)

RECURSIVE LineLoop_noQuotes(_, _, _, _)
LineLoop_noQuotes(line, i, result, current) ==
  IF i > Len(line) THEN Append(result, trim(current))
  ELSE IF line[i] = "\"" THEN LineLoop_noQuotes(line, i + 1, result, current)
  ELSE IF line[i] = ","
       THEN LineLoop_noQuotes(line, i + 1, Append(result, trim(current)), <<>>)
  ELSE LineLoop_noQuotes(line, i + 1, result, Append(current, line[i]))

\* parseCSVLine ending a field at every comma, quoted or not
parseCSVLine_noQuotes(line) == LineLoop_noQuotes(line, 1, <<>>, <<>>)

parseCSVLine(line) == LineLoop(line, 1, <<>>, <<>>, FALSE)

\* ---------------------------------------------------------------- parseCSV

RECURSIVE SplitFrom(_, _, _, _)
\* String.prototype.split on a one-character separator
SplitFrom(text, sep, i, current) ==
  IF i > Len(text) THEN <<current>>
  ELSE IF text[i] = sep THEN <<current>> \o SplitFrom(text, sep, i + 1, <<>>)
  ELSE SplitFrom(text, sep, i + 1, Append(current, text[i]))

split(text, sep) == SplitFrom(text, sep, 1, <<>>)

\* values[idx]?.trim()
FieldAt(values, idx) ==
  IF idx <= Len(values) THEN Str(trim(values[idx])) ELSE Undefined

\* the value stored for one field: null, a number or the text
CellValue(value) ==
  IF value = Undefined \/ value.s \in {<<>>, <<"N","A">>, <<"N","a","N">>}
  THEN Null
  ELSE IF StringToNumber(value.s).t # "nan" THEN StringToNumber(value.s)
  ELSE value

RECURSIVE RowFrom(_, _, _, _)
\* headers.forEach from index idx on
RowFrom(headers, values, idx, row) ==
  IF idx > Len(headers) THEN row
  ELSE RowFrom(headers, values, idx + 1,
               ObjSet(row, headers[idx], CellValue(FieldAt(values, idx))))

\* parseCSV splitting the text as it is, without trimming it first
parseCSV_untrimmed(text) ==
  LET lines == split(text, "\n")
      headers == parseCSVLine(lines[1])
  IN  IF Len(lines) = 0 THEN <<>>
      ELSE [i \in 1..(Len(lines) - 1) |->
              RowFrom(headers, parseCSVLine(lines[i + 1]), 1, <<>>)]

parseCSV(text) ==
  LET lines == split(trim(text), "\n")
      headers == parseCSVLine(lines[1])
  IN  IF Len(lines) = 0 THEN <<>>
      ELSE [i \in 1..(Len(lines) - 1) |->
              RowFrom(headers, parseCSVLine(lines[i + 1]), 1, <<>>)]

\* --------------------------------------------------------- readUploadedFile

\* the message of the error thrown for a file of no accepted type
UnsupportedMessage ==
  <<"U", "n", "s", "u", "p", "p", "o", "r", "t", "e", "d", " ", "f", "i",
    "l", "e", " ", "t", "y", "p", "e", ".", " ", "P", "l", "e", "a", "s",
    "e", " ", "u", "p", "l", "o", "a", "d", " ", ".", "c", "s", "v", " ",
    "o", "r", " ", ".", "x", "l", "s", "x">>

\* the message of whatever the spreadsheet reader throws
ReaderMessage == <<"X", "L", "S", "X">>

\* what the call gave: the records it resolved with, or the message of the
\* error it rejected with, and which content of the file it read
Resolved(read, data) == [ok |-> TRUE, read |-> read, data |-> data, error |-> <<>>]
Rejected(read, error) == [ok |-> FALSE, read |-> read, data |-> <<>>, error |-> error]

\* the spreadsheet branch: the reader gives the rows of the first sheet, or throws
ReadSheet(file) ==
  IF file.readable THEN Resolved("arrayBuffer", file.sheet)
  ELSE Rejected("arrayBuffer", ReaderMessage)

\* readUploadedFile testing the name as it is written, without lower-casing it
readUploadedFile_caseSensitive(file) ==
  LET name == file.name
  IN  IF endsWith(name, <<".", "c", "s", "v">>)
      THEN Resolved("text", parseCSV(file.text))
      ELSE IF endsWith(name, <<".", "x", "l", "s", "x">>) \/ endsWith(name, <<".", "x", "l", "s">>)
           THEN ReadSheet(file)
      ELSE Rejected("none", UnsupportedMessage)

\* a file is [name, text, sheet, readable]: its name, its content read as
\* text, and what the spreadsheet reader makes of its content
readUploadedFile(file) ==
  LET name == toLowerCase(file.name)
  IN  IF endsWith(name, <<".", "c", "s", "v">>)
      THEN Resolved("text", parseCSV(file.text))
      ELSE IF endsWith(name, <<".", "x", "l", "s", "x">>) \/ endsWith(name, <<".", "x", "l", "s">>)
           THEN ReadSheet(file)
      ELSE Rejected("none", UnsupportedMessage)

\* ------------------------------------------------------------- exportToCSV

RECURSIVE join(_, _)
\* Array.prototype.join
join(parts, sep) ==
  IF parts = <<>> THEN <<>>
  ELSE IF Len(parts) = 1 THEN parts[1]
  ELSE parts[1] \o sep \o join(Tail(parts), sep)

Contains(s, c) == \E i \in 1..Len(s) : s[i] = c

\* the text of one cell without the quoting of strings that hold a comma
RenderCell_unquoted(value) ==
  IF value.t \in {"null", "undef"} THEN <<>>
  ELSE String(value)

\* the text of one cell
RenderCell(value) ==
  IF value.t \in {"null", "undef"} THEN <<>>
  ELSE IF value.t = "str" /\ Contains(value.s, ",")
       THEN <<"\"">> \o value.s \o <<"\"">>
  ELSE String(value)

RenderRow(headers, row) ==
  join([h \in 1..Len(headers) |-> RenderCell(ObjGet(row, headers[h]))], <<",">>)

\* the text handed to the Blob
csvContent(data) ==
  LET headers == ObjKeys(data[1])
  IN  join(<<join(headers, <<",">>)>>
             \o [r \in 1..Len(data) |-> RenderRow(headers, data[r])],
           <<"\n">>)

\* what the call downloads: nothing for an empty record sequence
exportToCSV(data, filename) ==
  IF Len(data) = 0 THEN [download |-> FALSE, content |-> <<>>, filename |-> ""]
  ELSE [download |-> TRUE, content |-> csvContent(data), filename |-> filename]

\* ------------------------------------------------------------ classifyRisk

NoRisk == [group |-> "None", threshold |-> Null]

\* classifyRisk with the band limits exclusive (< for <=)
classifyRisk_exclusive(score, riskRef) ==
  IF ~riskRef.present THEN NoRisk
  ELSE IF riskRef.q33 = Undefined \/ riskRef.q66 = Undefined THEN NoRisk
  ELSE IF JsLeq(score, riskRef.q33) /\ score # riskRef.q33
       THEN [group |-> "Low", threshold |-> riskRef.q33]
  ELSE IF JsLeq(score, riskRef.q66) /\ score # riskRef.q66
       THEN [group |-> "Intermediate", threshold |-> riskRef.q66]
  ELSE [group |-> "High", threshold |-> riskRef.q66]

\* riskRef is [present, q33, q66]: present is FALSE for a null reference, and
\* a property left out of the object reads as Undefined
classifyRisk(score, riskRef) ==
  IF ~riskRef.present THEN NoRisk
  ELSE IF riskRef.q33 = Undefined \/ riskRef.q66 = Undefined THEN NoRisk
  ELSE IF JsLeq(score, riskRef.q33)
       THEN [group |-> "Low", threshold |-> riskRef.q33]
  ELSE IF JsLeq(score, riskRef.q66)
       THEN [group |-> "Intermediate", threshold |-> riskRef.q66]
  ELSE [group |-> "High", threshold |-> riskRef.q66]

\* ---------------------------------------------------------- detectIdColumn

candidates == <<"Sample", "Patient_ID", "patient_id", "PatientID", "id", "ID">>

\* the result: a column name, or null
NoColumn == [found |-> FALSE, name |-> ""]
Column(name) == [found |-> TRUE, name |-> name]

\* Array.prototype.includes
Includes(cols, name) == \E i \in 1..Len(cols) : cols[i] = name

RECURSIVE DetectFrom(_, _)
\* the loop over the candidates, from candidate k on
DetectFrom(cols, k) ==
  IF k > Len(candidates) THEN NoColumn
  ELSE IF Includes(cols, candidates[k]) THEN Column(candidates[k])
  ELSE DetectFrom(cols, k + 1)

\* detectIdColumn taking the first column that is a candidate, in column order
detectIdColumn_columnOrder(cols) ==
  IF \E i \in 1..Len(cols) : \E k \in 1..Len(candidates) : cols[i] = candidates[k]
  THEN Column(cols[CHOOSE i \in 1..Len(cols) :
         /\ \E k \in 1..Len(candidates) : cols[i] = candidates[k]
         /\ \A j \in 1..(i - 1) : \A k \in 1..Len(candidates) : cols[j] # candidates[k]])
  ELSE NoColumn

detectIdColumn(cols) == DetectFrom(cols, 1)

\* ------------------------------------------------------- getSurvivalAtTime

\* probabilities are held in tenths: 10 is the probability 1
FullSurvival == 10

\* the loops are written as the choice of the index they stop at: a curve of
\* ten years has 122 samples

\* the sample at index i is at or before targetTime
Reached(survivalData, targetTime, i) == survivalData[i].time <= targetTime

\* getSurvivalAtTime scanning from the earliest sample forward
getSurvivalAtTime_forward(survivalData, targetTime) ==
  IF Len(survivalData) = 0 THEN FullSurvival
  ELSE IF \E i \in 1..Len(survivalData) : Reached(survivalData, targetTime, i)
       THEN survivalData[CHOOSE i \in 1..Len(survivalData) :
              /\ Reached(survivalData, targetTime, i)
              /\ \A j \in 1..(i - 1) : ~Reached(survivalData, targetTime, j)].probability
  ELSE survivalData[1].probability

\* the backward loop stops at the last sample at or before targetTime; with
\* no such sample the first sample is returned
getSurvivalAtTime(survivalData, targetTime) ==
  IF Len(survivalData) = 0 THEN FullSurvival
  ELSE IF \E i \in 1..Len(survivalData) : Reached(survivalData, targetTime, i)
       THEN survivalData[CHOOSE i \in 1..Len(survivalData) :
              /\ Reached(survivalData, targetTime, i)
              /\ \A j \in (i + 1)..Len(survivalData) :
                   ~Reached(survivalData, targetTime, j)].probability
  ELSE survivalData[1].probability

\* ------------------------------------------------ generateMockSurvivalData

\* terms of the power series taken for Math.exp
ExpTerms == 12

RECURSIVE ExpSeries(_, _, _, _)
\* the series of e^(y / 10000), in ten-thousandths, from term k on
ExpSeries(y, k, term, sum) ==
  IF k > ExpTerms THEN sum
  ELSE ExpSeries(y, k + 1, (term * y) \div (k * 10000),
                 sum + (term * y) \div (k * 10000))

\* Math.exp of y ten-thousandths, in ten-thousandths
MathExp(y) == ExpSeries(y, 1, 10000, 10000)

\* a probability in ten-thousandths rounded to the tenths the model holds
Tenths(p) == (p + 500) \div 1000

\* 0.0001 + riskScore * 0.0002, in millionths
Lambda(riskScore) == 100 + (riskScore.n * 200) \div (10 ^ riskScore.d)

DefaultMaxDays == 3650

\* generateMockSurvivalData with the loop running while t < maxDays
generateMockSurvivalData_exclusive(patientId, riskScore, maxDays) ==
  [i \in 1..((maxDays + 29) \div 30) |->
     LET t == 30 * (i - 1)
         probability == Tenths(MathExp((0 - Lambda(riskScore) * t) \div 100))
     IN  [time |-> t, probability |-> IF probability < 0 THEN 0 ELSE probability]]

\* one sample every 30 days from day 0 to maxDays
generateMockSurvivalData(patientId, riskScore, maxDays) ==
  [i \in 1..(maxDays \div 30 + 1) |->
     LET t == 30 * (i - 1)
         probability == Tenths(MathExp((0 - Lambda(riskScore) * t) \div 100))
     IN  [time |-> t, probability |-> IF probability < 0 THEN 0 ELSE probability]]

\* the maxDays parameter: DefaultMaxDays when the argument is left out
MaxDaysGiven(maxDays) == IF maxDays = Undefined THEN DefaultMaxDays ELSE maxDays.n

\* ---------------------------------------------------------- the Index page

\* the spelling of the column names that detectIdColumn is given
Spelling ==
  ("Sample" :> <<"S", "a", "m", "p", "l", "e">>) @@
  ("Patient_ID" :> <<"P", "a", "t", "i", "e", "n", "t", "_", "I", "D">>) @@
  ("patient_id" :> <<"p", "a", "t", "i", "e", "n", "t", "_", "i", "d">>) @@
  ("PatientID" :> <<"P", "a", "t", "i", "e", "n", "t", "I", "D">>) @@
  ("id" :> <<"i", "d">>) @@
  ("ID" :> <<"I", "D">>) @@
  ("Name" :> <<"N", "a", "m", "e">>) @@
  ("Age" :> <<"A", "g", "e">>) @@
  ("sample" :> <<"s", "a", "m", "p", "l", "e">>)

\* the name of a column for detectIdColumn
NameOf(chars) ==
  IF \E name \in DOMAIN Spelling : Spelling[name] = chars
  THEN CHOOSE name \in DOMAIN Spelling : Spelling[name] = chars
  ELSE "other"

\* a value in a condition: null, undefined, NaN, 0 and the empty string are falsy
Truthy(v) ==
  CASE v.t = "str" -> v.s # <<>>
    [] v.t = "num" -> v.n # 0
    [] v.t = "inf" -> TRUE
    [] OTHER -> FALSE

\* the model bundle: null, or the mock bundle with its risk reference
NoModelBundle ==
  [loaded |-> FALSE, riskRef |-> [present |-> FALSE, q33 |-> Undefined, q66 |-> Undefined]]
MockModelBundle ==
  [loaded |-> TRUE, riskRef |-> [present |-> TRUE, q33 |-> Num(35, 2), q66 |-> Num(65, 2)]]

TIMEPOINT_OPTIONS == <<1, 2, 3, 5, 10>>

\* a toast: its kind, its fixed words and the text put into them
Toast(kind, words, detail) == [kind |-> kind, words |-> words, detail |-> detail]
NoToast == Toast("none", "", <<>>)

\* the patient id of the row at index idx
PatientIdOf(row, idx, idCol) ==
  IF idCol.found THEN String(ObjGet(row, Spelling[idCol.name]))
  ELSE <<"P", "a", "t", "i", "e", "n", "t", "_">> \o NatText(idx)

\* what 0.2 + Math.random() * 0.6 may give: a score of each risk group
RandomScores == {Num(2, 1), Num(5, 1), Num(79, 2)}

\* generateMockSurvivalData(patientId, riskScore) for each score that may be
\* drawn, computed once: the patient id takes no part in the curve
SurvivalCurves ==
  [riskScore \in RandomScores |->
     generateMockSurvivalData(<<>>, riskScore, DefaultMaxDays)]

\* one element of patientData.map: riskScore is what 0.2 + Math.random() * 0.6 gave
Prediction(c, row, idx, riskScore) ==
  LET patientId == PatientIdOf(row, idx, c.idColumn)
      survivalData == SurvivalCurves[riskScore]
  IN  [patientId |-> patientId,
       riskScore |-> riskScore,
       riskGroup |-> classifyRisk(riskScore, c.modelBundle.riskRef).group,
       survivalProbabilities |->
         [k \in 1..Len(c.selectedTimepoints) |->
            [year |-> c.selectedTimepoints[k],
             probability |->
               getSurvivalAtTime(survivalData, c.selectedTimepoints[k] * 365)]],
       survivalData |-> survivalData]

\* c is what the callback closed over: modelBundle, patientData, idColumn,
\* selectedTimepoints and selectedPatient
Predictions(c, riskScores) ==
  [i \in 1..Len(c.patientData) |-> Prediction(c, c.patientData[i], i, riskScores[i])]

\* handlePredict: what one call does, given what the callback closed over and
\* the random scores it draws: the toast it shows and the values it hands to
\* setIsProcessing, setResults and setSelectedPatient, in order
handlePredict_unguarded(c, riskScores) ==
  LET predictions == Predictions(c, riskScores)
  IN  [started |-> TRUE,
       setIsProcessing |-> <<TRUE, FALSE>>,
       setResults |-> <<predictions>>,
       setSelectedPatient |->
         IF Len(predictions) > 0 /\ ~Truthy(c.selectedPatient)
         THEN <<Str(predictions[1].patientId)>> ELSE <<>>,
       toast |-> Toast("success", "Generated predictions for  patients",
                       NatText(Len(predictions)))]

handlePredict(c, riskScores) ==
  IF ~c.modelBundle.loaded \/ Len(c.patientData) = 0
  THEN [started |-> FALSE,
        setIsProcessing |-> <<>>,
        setResults |-> <<>>,
        setSelectedPatient |-> <<>>,
        toast |-> Toast("error", "Please upload both model and patient data", <<>>)]
  ELSE LET predictions == Predictions(c, riskScores)
       IN  [started |-> TRUE,
            setIsProcessing |-> <<TRUE, FALSE>>,
            setResults |-> <<predictions>>,
            setSelectedPatient |->
              IF Len(predictions) > 0 /\ ~Truthy(c.selectedPatient)
              THEN <<Str(predictions[1].patientId)>> ELSE <<>>,
            toast |-> Toast("success", "Generated predictions for  patients",
                            NatText(Len(predictions)))]

\* Number.prototype.toFixed(k) of n / 10^d
toFixed(n, d, k) ==
  LET m == IF n < 0 THEN 0 - n ELSE n
      q == IF d <= k THEN m * 10 ^ (k - d)
           ELSE (m + 5 * 10 ^ (d - k - 1)) \div (10 ^ (d - k))
  IN  (IF n < 0 THEN <<"-">> ELSE <<>>) \o NumberText(q, k)

\* the words of a risk group
GroupText ==
  ("Low" :> <<"L", "o", "w">>) @@ ("Intermediate" :> <<"I", "n", "t", "e", "r", "m", "e", "d", "i", "a", "t", "e">>) @@
  ("High" :> <<"H", "i", "g", "h">>) @@ ("None" :> <<"N", "o", "n", "e">>)

\* the key of a timepoint column
TimepointKey(year) == <<"S", "(", "t", "=">> \o NatText(year) \o <<"y", ")">>

\* one row of exportData
ExportRow(r) ==
  MakeRow(<<<<"P", "a", "t", "i", "e", "n", "t">>, <<"R", "i", "s", "k", "_", "S", "c", "o", "r", "e">>, <<"R", "i", "s", "k", "_", "G", "r", "o", "u", "p">>>>
            \o [k \in 1..Len(r.survivalProbabilities) |->
                  TimepointKey(r.survivalProbabilities[k].year)],
          <<Str(r.patientId), Str(toFixed(r.riskScore.n, r.riskScore.d, 4)),
            Str(GroupText[r.riskGroup])>>
            \o [k \in 1..Len(r.survivalProbabilities) |->
                  Str(toFixed(r.survivalProbabilities[k].probability, 1, 3))],
          <<>>)

PredictionsFileName == "survival_predictions.csv"

\* exportToCSV was not called
NoExport == [download |-> FALSE, content |-> <<>>, filename |-> ""]

\* handleExport exporting whatever results holds, also nothing
handleExport_unguarded(rows) ==
  [called |-> TRUE,
   export |-> exportToCSV([i \in 1..Len(rows) |-> ExportRow(rows[i])],
                          PredictionsFileName),
   toast |-> Toast("success", "Predictions exported successfully", <<>>)]

\* handleExport: whether it called exportToCSV, what that downloaded, the toast
handleExport(rows) ==
  IF Len(rows) = 0
  THEN [called |-> FALSE, export |-> NoExport, toast |-> NoToast]
  ELSE [called |-> TRUE,
        export |-> exportToCSV([i \in 1..Len(rows) |-> ExportRow(rows[i])],
                               PredictionsFileName),
        toast |-> Toast("success", "Predictions exported successfully", <<>>)]

\* ------------------------------------------------- SurvivalChart chartData

\* the times of the samples a chart is given are held in halves of a day (3
\* is a day and a half), their probabilities in tenths; a value of a chart
\* point is the fraction num / den, of whole days for a time and of tenths
\* for a probability

\* Math.round of a time in halves, in whole days: a half rounds up
MathRound(time) == (time + 1) \div 2

Fraction(num, den) == [num |-> num, den |-> den]

\* the set allTimes: Math.round(point.time) of every point of every patient
allTimes(data) ==
  UNION {{MathRound(data[i].data[j].time) : j \in 1..Len(data[i].data)}
           : i \in 1..Len(data)}

\* Array.from(allTimes).sort((a, b) => a - b)
sortedTimes(data) ==
  [k \in 1..Cardinality(allTimes(data)) |->
     CHOOSE t \in allTimes(data) :
       Cardinality({u \in allTimes(data) : u < t}) = k - 1]

\* the index patient.data.find(p => Math.round(p.time) === time) stops at,
\* or 0
exactPoint(points, time) ==
  IF \E j \in 1..Len(points) : MathRound(points[j].time) = time
  THEN CHOOSE j \in 1..Len(points) :
         /\ MathRound(points[j].time) = time
         /\ \A k \in 1..(j - 1) : MathRound(points[k].time) # time
  ELSE 0

\* the index of sortedData.filter(p => p.time <= time).pop(), or 0: the sort
\* is stable, so of the latest samples at or before time the last one
beforeIndex(points, time) ==
  LET at == {j \in 1..Len(points) : points[j].time <= 2 * time}
  IN  IF at = {} THEN 0
      ELSE CHOOSE j \in at :
             \A k \in at : \/ points[k].time < points[j].time
                           \/ points[k].time = points[j].time /\ k <= j

\* the index of sortedData.find(p => p.time > time), or 0: of the earliest
\* samples after time the first one
afterIndex(points, time) ==
  LET past == {j \in 1..Len(points) : points[j].time > 2 * time}
  IN  IF past = {} THEN 0
      ELSE CHOOSE j \in past :
             \A k \in past : \/ points[k].time > points[j].time
                             \/ points[k].time = points[j].time /\ k >= j

\* before.probability + ratio * (after.probability - before.probability)
\* with ratio = (time - before.time) / (after.time - before.time)
Interpolated(b, a, time) ==
  Fraction(b.probability * (a.time - b.time)
             + (2 * time - b.time) * (a.probability - b.probability),
           a.time - b.time)

\* what the body of data.forEach leaves in point[patient.patientId] for the
\* samples of one patient, when it sets it
ChartValue(points, time) ==
  IF exactPoint(points, time) # 0
  THEN [set |-> TRUE, value |-> Fraction(points[exactPoint(points, time)].probability, 1)]
  ELSE IF beforeIndex(points, time) # 0 /\ afterIndex(points, time) # 0
  THEN [set |-> TRUE,
        value |-> Interpolated(points[beforeIndex(points, time)],
                               points[afterIndex(points, time)], time)]
  ELSE IF beforeIndex(points, time) # 0
  THEN [set |-> TRUE, value |-> Fraction(points[beforeIndex(points, time)].probability, 1)]
  ELSE IF afterIndex(points, time) # 0
  THEN [set |-> TRUE, value |-> Fraction(points[afterIndex(points, time)].probability, 1)]
  ELSE [set |-> FALSE, value |-> Fraction(0, 1)]

RECURSIVE ChartPoint(_, _, _, _)
\* data.forEach over the patients from index i on, for the point of time
ChartPoint(data, time, i, point) ==
  IF i > Len(data) THEN point
  ELSE ChartPoint(data, time, i + 1,
         IF ChartValue(data[i].data, time).set
         THEN ObjSet(point, data[i].patientId, ChartValue(data[i].data, time).value)
         ELSE point)

\* chartData for mode 'all': one point for each of the sorted times
chartData(data) ==
  IF Len(data) = 0 THEN <<>>
  ELSE [k \in 1..Len(sortedTimes(data)) |->
          ChartPoint(data, sortedTimes(data)[k], 1,
            ObjSet(ObjSet(<<>>, <<"t", "i", "m", "e">>, Fraction(sortedTimes(data)[k], 1)),
                   <<"t", "i", "m", "e", "D", "a", "y", "s">>,
                   Fraction(sortedTimes(data)[k], 1)))]

\* ------------------------------------------------------------- the inputs

Scores == {Whole(n) : n \in (0 - 1)..3} \cup {Num(5, 1), Num(15, 1), NaN}

Thresholds == {Whole(0), Whole(1), Whole(2), Undefined, Null, NaN}

RiskRefs ==
  {[present |-> FALSE, q33 |-> Undefined, q66 |-> Undefined]}
    \cup [present : {TRUE}, q33 : Thresholds, q66 : Thresholds]

ColumnNames ==
  {"Sample", "Patient_ID", "patient_id", "PatientID", "id", "ID",
   "Name", "Age", "sample"}

ColumnLists == UNION {[1..k -> ColumnNames] : k \in 0..MaxCols}

SampleTimes == {0, 30, 60}
SampleProbabilities == {8, 9, 10}
TargetTimes == {0 - 5, 0, 29, 30, 45, 60, 90}

\* curves are ordered by time
Curves ==
  {c \in UNION {[1..k -> [time : SampleTimes, probability : SampleProbabilities]]
                  : k \in 0..MaxSamples} :
     \A i \in 1..(Len(c) - 1) : c[i].time <= c[i + 1].time}

StagePrefixes == {<<>>, <<"2">>}
StageWords == {<<>>, <<"S","t","a","g","e">>, <<"s","T","A","G","E">>}
StageBodyChars == {"I", "V", "X", "i", "2", ".", "-", "a", " "}

StageValues ==
  {Null, Undefined, NaN, Whole(0), Whole(2), Whole(0 - 1), Num(25, 1)}
    \cup {Str(p \o w \o b) : p \in StagePrefixes, w \in StageWords,
                             b \in TextsUpTo(StageBodyChars, MaxBody)}

LineChars == {"a", ",", "\"", " "}
Lines == TextsUpTo(LineChars, MaxLineLen)

FieldChars == {"0", "1", ".", "-", "x", "N", "A", "a"}
FieldPads == {<<>>, <<" ">>}

\* a header line h and one data line holding one field
FieldTexts ==
  {<<"h", "\n">> \o pad \o f : pad \in FieldPads,
                               f \in TextsUpTo(FieldChars, MaxFieldLen)}

\* texts of several lines: header names a and 1, commas, blanks, line ends
CsvChars == {"a", "1", ",", " ", "\n"}
CsvTexts == TextsUpTo(CsvChars, MaxTextLen)

CellValues ==
  {Null, Whole(0), Whole(12), Whole(0 - 1), Num(25, 1),
   Str(<<>>), Str(<<"a">>), Str(<<"a", ",", "b">>), Str(<<"N", "A">>),
   Str(<<"1", "2">>), Str(<<" ", "a">>), Str(<<"a", "\"", "b">>),
   Str(<<"a", "\n", "b">>)}

FewCellValues == {Null, Whole(1), Str(<<"a", ",", "b">>), Str(<<"x">>)}

\* datasets of uniform columns: one column a, or two columns a and b
Datasets ==
  UNION {{[r \in 1..n |-> MakeRow(<<<<"a">>>>, <<col[r]>>, <<>>)]
            : col \in [1..n -> CellValues]}
         \cup
         {[r \in 1..n |-> MakeRow(<<<<"a">>, <<"b">>>>, <<cols[r][1], cols[r][2]>>, <<>>)]
            : cols \in [1..n -> FewCellValues \X FewCellValues]}
         : n \in 1..MaxRows}

\* two records of different keys: the second lacks the column b, or has it
\* where the first does not
RaggedDatasets ==
  {<<MakeRow(<<<<"a">>, <<"b">>>>, <<v, w>>, <<>>), MakeRow(<<<<"a">>>>, <<u>>, <<>>)>>
     : v \in FewCellValues, w \in FewCellValues, u \in FewCellValues}
  \cup
  {<<MakeRow(<<<<"a">>>>, <<u>>, <<>>), MakeRow(<<<<"a">>, <<"b">>>>, <<v, w>>, <<>>)>>
     : v \in FewCellValues, w \in FewCellValues, u \in FewCellValues}

\* what exportToCSV is called with: also no record at all
ExportInputs == {<<>>} \cup Datasets \cup RaggedDatasets

\* names of uploaded files: the accepted suffixes in several cases, and others
FileNames ==
  {<<"d", ".", "c", "s", "v">>,
   <<"D", ".", "C", "S", "V">>,
   <<"d", ".", "C", "s", "v">>,
   <<"d", ".", "x", "l", "s", "x">>,
   <<"d", ".", "X", "L", "S", "X">>,
   <<"d", ".", "x", "l", "s">>,
   <<"d", ".", "X", "l", "s">>,
   <<"d", ".", "t", "x", "t">>,
   <<"d", ".", "c", "s", "v", ".", "t", "x", "t">>,
   <<"c", "s", "v">>,
   <<".", "c", "s", "v">>,
   <<"d", ".", "x", "l", "s", "m">>,
   <<"d", ".", "j", "s", "o", "n">>,
   <<"d", "c", "s", "v">>,
   <<"d", ".", "x", "l", "s", "x", ".", "b", "a", "k">>,
   <<"d", ".", "c", "s">>,
   <<>>}

FileTexts == {<<>>, <<"i", "d", "\n", "7">>}

\* the rows the spreadsheet reader gives for a readable file
SheetRows == <<MakeRow(<<<<"I", "D">>>>, <<Whole(3)>>, <<>>)>>

Files == [name : FileNames, text : FileTexts, sheet : {SheetRows}, readable : BOOLEAN]

\* rows of the columns id and a
PageRow(id, a) == MakeRow(<<<<"i", "d">>, <<"a">>>>, <<id, a>>, <<>>)

PageDatasets ==
  {<<>>,
   <<PageRow(Whole(7), Str(<<"x">>))>>,
   <<PageRow(Whole(7), Str(<<"x">>)), PageRow(Null, Whole(1))>>}

\* what handlePredict may have closed over
Closures ==
  [modelBundle : {NoModelBundle, MockModelBundle},
   patientData : PageDatasets,
   idColumn : {NoColumn, Column("id")},
   selectedTimepoints : {<<>>, <<1, 2, 3, 5>>},
   selectedPatient : {Null, Str(<<"7">>)}]

PredictCalls ==
  UNION {[closure : {c}, riskScores : [1..Len(c.patientData) -> RandomScores]]
           : c \in Closures}

\* what results may hold: nothing, or the predictions of a run
ResultLists ==
  {<<>>} \cup {Predictions(p.closure, p.riskScores) : p \in PredictCalls}

\* risk scores handed to generateMockSurvivalData: -1, -0.5, 0, 0.5 and 2
GenScores == {Whole(0 - 1), Num(0 - 5, 1), Whole(0), Num(5, 1), Whole(2)}

\* horizons: given in days, or left out
Horizons == {Whole(d) : d \in {0, 1, 29, 30, 31, 59, 60, 90, 600}} \cup {Undefined}

\* the samples of a charted curve: at 0, 0.5, 1 and 2 days, in any order
ChartSamples == [time : {0, 1, 2, 4}, probability : {6, 10}]

ChartCurves == UNION {[1..k -> ChartSamples] : k \in 0..MaxSamples}

\* the curves of a second patient: one sample at day 1, one at day 3, and
\* samples at day 0 and at a day and a half
OtherCurves ==
  {<<[time |-> 2, probability |-> 8]>>,
   <<[time |-> 6, probability |-> 8]>>,
   <<[time |-> 0, probability |-> 10], [time |-> 3, probability |-> 9]>>}

\* the data of the chart: no patient, patient A, or the patients A and B
ChartInputs ==
  {<<>>}
    \cup {<<[patientId |-> <<"A">>, data |-> c]>> : c \in ChartCurves}
    \cup {<<[patientId |-> <<"A">>, data |-> c], [patientId |-> <<"B">>, data |-> o]>>
            : c \in ChartCurves, o \in OtherCurves}

ExportFileName == "data.csv"

\* ------------------------------------------------------------ the machine

\* what the page closes over when it renders handlePredict
Closure ==
  [modelBundle |-> modelBundle, patientData |-> patientData, idColumn |-> idColumn,
   selectedTimepoints |-> selectedTimepoints, selectedPatient |-> selectedPatient]

\* no run is under way; replaced tells that a data upload has loaded its
\* records since the run began
NoRun ==
  [active |-> FALSE,
   replaced |-> FALSE,
   closure |-> [modelBundle |-> NoModelBundle, patientData |-> <<>>,
                idColumn |-> NoColumn, selectedTimepoints |-> <<1, 2, 3, 5>>,
                selectedPatient |-> Null]]

NoCell == [active |-> FALSE, row |-> 0, col |-> <<>>]
Cell(row, col) == [active |-> TRUE, row |-> row, col |-> col]

\* the state after the first render: the initial values of useState
PageStart ==
  /\ modelFile = Null
  /\ dataFile = Null
  /\ patientData = <<>>
  /\ columns = <<>>
  /\ idColumn = NoColumn
  /\ modelBundle = NoModelBundle
  /\ results = <<>>
  /\ isProcessing = FALSE
  /\ selectedTimepoints = <<1, 2, 3, 5>>
  /\ selectedPatient = Null
  /\ editingCell = NoCell
  /\ editValue = <<>>
  /\ reads = {}
  /\ used = 0
  /\ run = NoRun

Init ==
  /\ PageStart
  /\ pc = "called"
  /\ ret = Undefined
  /\ \/ call = "classifyRisk" /\ arg \in [score : Scores, riskRef : RiskRefs]
     \/ call = "getSurvivalAtTime"
          /\ arg \in [survivalData : Curves, targetTime : TargetTimes]
     \/ call = "detectIdColumn" /\ arg \in ColumnLists
     \/ call = "parseStageOrdinal" /\ arg \in StageValues
     \/ call = "parseCSVLine" /\ arg \in Lines
     \/ call = "parseCSV" /\ arg \in FieldTexts \cup CsvTexts
     \/ call = "exportThenParse" /\ arg \in Datasets
     \/ call = "exportToCSV" /\ arg \in ExportInputs
     \/ call = "readUploadedFile" /\ arg \in Files
     \/ call = "handlePredict" /\ arg \in PredictCalls
     \/ call = "handleExport" /\ arg \in ResultLists
     \/ call = "chartData" /\ arg \in ChartInputs
     \/ call = "generateMockSurvivalData"
          /\ arg \in [riskScore : GenScores, maxDays : Horizons]

Return(name, value) ==
  /\ call = name
  /\ pc = "called"
  /\ pc' = "returned"
  /\ ret' = value
  /\ UNCHANGED <<call, arg, page>>

ClassifyRisk == Return("classifyRisk", classifyRisk(arg.score, arg.riskRef))

GetSurvivalAtTime ==
  Return("getSurvivalAtTime", getSurvivalAtTime(arg.survivalData, arg.targetTime))

DetectIdColumn == Return("detectIdColumn", detectIdColumn(arg))

ParseStageOrdinal == Return("parseStageOrdinal", parseStageOrdinal(arg))

ParseCSVLine == Return("parseCSVLine", parseCSVLine(arg))

ParseCSV == Return("parseCSV", parseCSV(arg))

\* the dataset is exported and the downloaded text is parsed again
ExportThenParse ==
  Return("exportThenParse",
         [export |-> exportToCSV(arg, ExportFileName),
          records |-> parseCSV(exportToCSV(arg, ExportFileName).content)])

ExportToCSV == Return("exportToCSV", exportToCSV(arg, ExportFileName))

ReadUploadedFile == Return("readUploadedFile", readUploadedFile(arg))

HandlePredict == Return("handlePredict", handlePredict(arg.closure, arg.riskScores))

HandleExport == Return("handleExport", handleExport(arg))

ChartData == Return("chartData", chartData(arg))

GenerateMockSurvivalData ==
  Return("generateMockSurvivalData",
         generateMockSurvivalData(<<>>, arg.riskScore, MaxDaysGiven(arg.maxDays)))

Next ==
  \/ ClassifyRisk
  \/ GetSurvivalAtTime
  \/ DetectIdColumn
  \/ ParseStageOrdinal
  \/ ParseCSVLine
  \/ ParseCSV
  \/ ExportThenParse
  \/ ExportToCSV
  \/ ReadUploadedFile
  \/ HandlePredict
  \/ HandleExport
  \/ GenerateMockSurvivalData
  \/ ChartData

Spec == Init /\ [][Next]_vars

Returned(name) == call = name /\ pc = "returned"

\* --------------------------------------------------------- the page machine

\* the data files the user may hand to the page
PageFiles ==
  {[name |-> <<"d", ".", "c", "s", "v">>, text |-> <<"i", "d", ",", "a", "\n", "7", ",", "x", "\n", "8", ",">>,
    sheet |-> <<>>, readable |-> FALSE],
   [name |-> <<"e", ".", "C", "S", "V">>, text |-> <<"a", "\n", "1">>, sheet |-> <<>>, readable |-> FALSE],
   [name |-> <<"h", ".", "c", "s", "v">>, text |-> <<"i", "d">>, sheet |-> <<>>, readable |-> FALSE],
   [name |-> <<"n", ".", "t", "x", "t">>, text |-> <<"i", "d", "\n", "7">>, sheet |-> <<>>, readable |-> FALSE],
   [name |-> <<"s", ".", "x", "l", "s", "x">>, text |-> <<>>,
    sheet |-> <<MakeRow(<<<<"I", "D">>, <<"a">>>>, <<Whole(3), Str(<<"x">>)>>, <<>>)>>,
    readable |-> TRUE],
   [name |-> <<"b", ".", "x", "l", "s">>, text |-> <<>>, sheet |-> <<>>, readable |-> FALSE]}

\* readUploadedFile(file) for each of these files, computed once
Read == [file \in PageFiles |-> readUploadedFile(file)]

\* what the user may type into a cell
EditTexts == {<<>>, <<"5">>, <<"N", "A">>}

PageInit ==
  /\ PageStart
  /\ call = "Index"
  /\ arg = Undefined
  /\ pc = "mounted"
  /\ ret = Undefined


\* the editor is rendered for a dataset with rows and columns
EditorMounted(data, cols) == Len(data) > 0 /\ Len(cols) > 0

\* the editor keeps its state while it stays rendered
Editor(data, cols) ==
  /\ editingCell' = IF EditorMounted(data, cols) THEN editingCell ELSE NoCell
  /\ editValue' = IF EditorMounted(data, cols) THEN editValue ELSE <<>>

\* handleModelUpload(file)
LoadModel ==
  /\ modelFile' = Str(<<"m">>)
  /\ modelBundle' = MockModelBundle
  /\ UNCHANGED <<caller, dataFile, patientData, columns, idColumn, results,
                 isProcessing, selectedTimepoints, selectedPatient,
                 editingCell, editValue, reads, run, used>>

\* handleModelUpload(null)
RemoveModel ==
  /\ modelFile # Null
  /\ modelFile' = Null
  /\ modelBundle' = NoModelBundle
  /\ results' = <<>>
  /\ UNCHANGED <<caller, dataFile, patientData, columns, idColumn,
                 isProcessing, selectedTimepoints, selectedPatient,
                 editingCell, editValue, reads, run, used>>

\* handleDataUpload(file) for a file of no accepted type: readUploadedFile
\* rejects before it reads anything, and the catch branch runs
RejectDataUpload(file) ==
  /\ used < MaxSteps
  /\ Read[file].read = "none"
  /\ used' = used + 1
  /\ dataFile' = Str(file.name)
  /\ patientData' = <<>>
  /\ columns' = <<>>
  /\ Editor(<<>>, <<>>)
  /\ UNCHANGED <<caller, modelFile, idColumn, modelBundle, results, isProcessing,
                 selectedTimepoints, selectedPatient, reads, run>>

\* handleDataUpload(file) up to the await of the file's content
StartDataUpload(file) ==
  /\ used < MaxSteps
  /\ Cardinality(reads) < MaxReads
  /\ file \notin reads
  /\ Read[file].read # "none"
  /\ used' = used + 1
  /\ dataFile' = Str(file.name)
  /\ reads' = reads \cup {file}
  /\ UNCHANGED <<caller, modelFile, patientData, columns, idColumn, modelBundle,
                 results, isProcessing, selectedTimepoints, selectedPatient,
                 editingCell, editValue, run>>

\* Object.keys(data[0]), or no column for no record
ColumnsOf(data) == IF Len(data) > 0 THEN ObjKeys(data[1]) ELSE <<>>

\* what the try branch sets after the file was read
DataLoaded_keepingResults(data, before) ==
  [patientData |-> data,
   columns |-> ColumnsOf(data),
   idColumn |-> detectIdColumn([i \in 1..Len(ColumnsOf(data)) |-> NameOf(ColumnsOf(data)[i])]),
   results |-> before]

DataLoaded(data, before) ==
  [patientData |-> data,
   columns |-> ColumnsOf(data),
   idColumn |-> detectIdColumn([i \in 1..Len(ColumnsOf(data)) |-> NameOf(ColumnsOf(data)[i])]),
   results |-> <<>>]

\* handleDataUpload(file) after the await: the file was read
DataUploadLoaded(file) ==
  /\ file \in reads
  /\ Read[file].ok
  /\ reads' = reads \ {file}
  /\ LET loaded == DataLoaded(Read[file].data, results)
     IN  /\ patientData' = loaded.patientData
         /\ columns' = loaded.columns
         /\ idColumn' = loaded.idColumn
         /\ results' = loaded.results
         /\ Editor(loaded.patientData, loaded.columns)
  /\ run' = [run EXCEPT !.replaced = run.active]
  /\ UNCHANGED <<caller, modelFile, dataFile, modelBundle, isProcessing,
                 selectedTimepoints, selectedPatient, used>>

\* handleDataUpload(file) after the await: the reader threw
DataUploadFailed(file) ==
  /\ file \in reads
  /\ ~Read[file].ok
  /\ reads' = reads \ {file}
  /\ patientData' = <<>>
  /\ columns' = <<>>
  /\ Editor(<<>>, <<>>)
  /\ UNCHANGED <<caller, modelFile, dataFile, idColumn, modelBundle, results,
                 isProcessing, selectedTimepoints, selectedPatient, run, used>>

\* handleDataUpload(null)
RemoveDataFile ==
  /\ dataFile # Null
  /\ dataFile' = Null
  /\ patientData' = <<>>
  /\ columns' = <<>>
  /\ idColumn' = NoColumn
  /\ results' = <<>>
  /\ Editor(<<>>, <<>>)
  /\ UNCHANGED <<caller, modelFile, modelBundle, isProcessing, selectedTimepoints,
                 selectedPatient, reads, run, used>>

\* the predict button left enabled while a run is under way
PredictEnabled_whileProcessing == modelBundle.loaded /\ Len(patientData) > 0

\* the predict button is rendered with a model bundle, and enabled with rows
\* while no run is under way
PredictEnabled == modelBundle.loaded /\ Len(patientData) > 0 /\ ~isProcessing

\* handlePredict up to the await of the delay: the run keeps what the
\* callback closed over
ClickPredict ==
  /\ PredictEnabled
  /\ used < MaxSteps
  /\ ~(~modelBundle.loaded \/ Len(patientData) = 0)
  /\ used' = used + 1
  /\ isProcessing' = TRUE
  /\ run' = [active |-> TRUE, replaced |-> FALSE, closure |-> Closure]
  /\ UNCHANGED <<caller, modelFile, dataFile, patientData, columns, idColumn,
                 modelBundle, results, selectedTimepoints, selectedPatient,
                 editingCell, editValue, reads>>

\* what setResults(predictions) leaves in results, appended to what it held
SetResults_appending(before, predictions) == before \o predictions

\* what setResults(predictions) leaves in results
SetResults(before, predictions) == predictions

\* handlePredict after the delay, with the scores Math.random gives
FinishPredict(riskScores) ==
  /\ run.active
  /\ LET done == handlePredict(run.closure, riskScores)
     IN  /\ results' = SetResults(results, done.setResults[1])
         /\ selectedPatient' = IF done.setSelectedPatient # <<>>
                                THEN done.setSelectedPatient[1] ELSE selectedPatient
         /\ isProcessing' = done.setIsProcessing[Len(done.setIsProcessing)]
  /\ run' = NoRun
  /\ UNCHANGED <<caller, modelFile, dataFile, patientData, columns, idColumn,
                 modelBundle, selectedTimepoints, editingCell, editValue, reads, used>>

RECURSIVE SortedInsert(_, _)
\* [...prev, year].sort((a, b) => a - b) for a sorted prev
SortedInsert(prev, year) ==
  IF prev = <<>> THEN <<year>>
  ELSE IF year < Head(prev) THEN <<year>> \o prev
  ELSE <<Head(prev)>> \o SortedInsert(Tail(prev), year)

\* a timepoint button, rendered with the model bundle
ToggleTimepoint(year) ==
  /\ modelBundle.loaded
  /\ used < MaxSteps
  /\ used' = used + 1
  /\ selectedTimepoints' =
       IF \E i \in 1..Len(selectedTimepoints) : selectedTimepoints[i] = year
       THEN SelectSeq(selectedTimepoints, LAMBDA y : y # year)
       ELSE SortedInsert(selectedTimepoints, year)
  /\ UNCHANGED <<caller, modelFile, dataFile, patientData, columns, idColumn,
                 modelBundle, results, isProcessing, selectedPatient,
                 editingCell, editValue, reads, run>>

\* a row of the results table or an entry of the patient select
SelectPatient(i) ==
  /\ i \in 1..Len(results)
  /\ selectedPatient # Str(results[i].patientId)
  /\ selectedPatient' = Str(results[i].patientId)
  /\ UNCHANGED <<caller, modelFile, dataFile, patientData, columns, idColumn,
                 modelBundle, results, isProcessing, selectedTimepoints,
                 editingCell, editValue, reads, run, used>>

\* the download button, rendered with results: handleExport downloads a file
\* and shows a toast, and sets no state
ExportPredictions ==
  /\ Len(results) > 0
  /\ UNCHANGED <<caller, modelFile, dataFile, patientData, columns, idColumn,
                 modelBundle, results, isProcessing, selectedTimepoints,
                 selectedPatient, editingCell, editValue, reads, run, used>>

\* ---- the PatientDataEditor, given patientData, columns and idColumn

DisplayLimit == 15

\* columns.slice(0, 15)
displayColumns ==
  SubSeq(columns, 1, IF Len(columns) < DisplayLimit THEN Len(columns) ELSE DisplayLimit)

\* the input of the cell under edit is rendered
InputShown ==
  /\ EditorMounted(patientData, columns)
  /\ editingCell.active
  /\ editingCell.row <= Len(patientData)
  /\ \E c \in 1..Len(displayColumns) : displayColumns[c] = editingCell.col

\* currentValue?.toString() ?? ''
EditText(value) == IF value \in {Null, Undefined} THEN <<>> ELSE String(value)

\* handleStartEdit: a click on a cell that is not under edit
StartEdit(row, c) ==
  /\ EditorMounted(patientData, columns)
  /\ used < MaxSteps
  /\ row \in 1..Len(patientData)
  /\ c \in 1..Len(displayColumns)
  /\ editingCell # Cell(row, displayColumns[c])
  /\ used' = used + 1
  /\ editingCell' = Cell(row, displayColumns[c])
  /\ editValue' = EditText(ObjGet(patientData[row], displayColumns[c]))
  /\ UNCHANGED <<caller, modelFile, dataFile, patientData, columns, idColumn,
                 modelBundle, results, isProcessing, selectedTimepoints,
                 selectedPatient, reads, run>>

\* the input's onChange
TypeEditValue(text) ==
  /\ InputShown
  /\ text # editValue
  /\ editValue' = text
  /\ UNCHANGED <<caller, modelFile, dataFile, patientData, columns, idColumn,
                 modelBundle, results, isProcessing, selectedTimepoints,
                 selectedPatient, editingCell, reads, run, used>>

\* the value handleSaveEdit stores for the text of the input
SavedValue(text) ==
  IF text = <<>> THEN Null
  ELSE IF StringToNumber(text).t = "nan" THEN Str(text)
  ELSE StringToNumber(text)

\* handleSaveEdit: Enter, or the input losing the focus
SaveEdit ==
  /\ InputShown
  /\ patientData' =
       [patientData EXCEPT ![editingCell.row] =
          ObjSet(@, editingCell.col, SavedValue(editValue))]
  /\ editingCell' = NoCell
  /\ editValue' = <<>>
  /\ UNCHANGED <<caller, modelFile, dataFile, columns, idColumn, modelBundle,
                 results, isProcessing, selectedTimepoints, selectedPatient,
                 reads, run, used>>

\* handleKeyDown with Escape
CancelEdit ==
  /\ InputShown
  /\ editingCell' = NoCell
  /\ editValue' = <<>>
  /\ UNCHANGED <<caller, modelFile, dataFile, patientData, columns, idColumn,
                 modelBundle, results, isProcessing, selectedTimepoints,
                 selectedPatient, reads, run, used>>

\* the row handleAddRow would append if it set the id column alone
NewRow_idOnly ==
  IF idColumn.found
  THEN ObjSet(<<>>, Spelling[idColumn.name],
              Str(<<"P", "a", "t", "i", "e", "n", "t", "_">> \o NatText(Len(patientData) + 1)))
  ELSE <<>>

\* the row handleAddRow appends: null in every column, and a generated id in
\* the id column
NewRow ==
  LET blank == MakeRow(columns, [c \in 1..Len(columns) |-> Null], <<>>)
  IN  IF idColumn.found
      THEN ObjSet(blank, Spelling[idColumn.name],
                  Str(<<"P", "a", "t", "i", "e", "n", "t", "_">> \o NatText(Len(patientData) + 1)))
      ELSE blank

\* handleAddRow
AddRow ==
  /\ EditorMounted(patientData, columns)
  /\ used < MaxSteps
  /\ used' = used + 1
  /\ patientData' = Append(patientData, NewRow)
  /\ UNCHANGED <<caller, modelFile, dataFile, columns, idColumn, modelBundle,
                 results, isProcessing, selectedTimepoints, selectedPatient,
                 editingCell, editValue, reads, run>>

\* handleDeleteRow(index)
DeleteRow(index) ==
  /\ EditorMounted(patientData, columns)
  /\ used < MaxSteps
  /\ index \in 1..Len(patientData)
  /\ used' = used + 1
  /\ patientData' = SubSeq(patientData, 1, index - 1)
                       \o SubSeq(patientData, index + 1, Len(patientData))
  /\ Editor(patientData', columns)
  /\ UNCHANGED <<caller, modelFile, dataFile, columns, idColumn, modelBundle,
                 results, isProcessing, selectedTimepoints, selectedPatient,
                 reads, run>>

PageNext ==
  \/ LoadModel
  \/ RemoveModel
  \/ \E file \in PageFiles : RejectDataUpload(file)
  \/ \E file \in PageFiles : StartDataUpload(file)
  \/ \E file \in PageFiles : DataUploadLoaded(file)
  \/ \E file \in PageFiles : DataUploadFailed(file)
  \/ RemoveDataFile
  \/ ClickPredict
  \/ \E riskScores \in [1..Len(run.closure.patientData) -> RandomScores] :
       FinishPredict(riskScores)
  \/ \E k \in 1..Len(TIMEPOINT_OPTIONS) : ToggleTimepoint(TIMEPOINT_OPTIONS[k])
  \/ \E i \in 1..Len(results) : SelectPatient(i)
  \/ ExportPredictions
  \/ \E row \in 1..Len(patientData) : \E c \in 1..Len(columns) : StartEdit(row, c)
  \/ \E text \in EditTexts : TypeEditValue(text)
  \/ SaveEdit
  \/ CancelEdit
  \/ AddRow
  \/ \E index \in 1..Len(patientData) : DeleteRow(index)

PageSpec == PageInit /\ [][PageNext]_vars

\* the file d.csv
DataCsv == CHOOSE file \in PageFiles : file.name = <<"d", ".", "c", "s", "v">>

\* the page after the model bundle and d.csv were loaded
LoadedInit ==
  /\ call = "Index"
  /\ arg = Undefined
  /\ pc = "mounted"
  /\ ret = Undefined
  /\ modelFile = Str(<<"m">>)
  /\ modelBundle = MockModelBundle
  /\ dataFile = Str(DataCsv.name)
  /\ patientData = DataLoaded(Read[DataCsv].data, <<>>).patientData
  /\ columns = DataLoaded(Read[DataCsv].data, <<>>).columns
  /\ idColumn = DataLoaded(Read[DataCsv].data, <<>>).idColumn
  /\ results = DataLoaded(Read[DataCsv].data, <<>>).results
  /\ isProcessing = FALSE
  /\ selectedTimepoints = <<1, 2, 3, 5>>
  /\ selectedPatient = Null
  /\ editingCell = NoCell
  /\ editValue = <<>>
  /\ reads = {}
  /\ run = NoRun
  /\ used = 0

\* the page from there on, with the uploads, the runs, the selections and
\* the added and deleted rows
LoadedNext ==
  \/ \E file \in PageFiles : StartDataUpload(file)
  \/ \E file \in PageFiles : DataUploadLoaded(file)
  \/ \E file \in PageFiles : DataUploadFailed(file)
  \/ ClickPredict
  \/ \E riskScores \in [1..Len(run.closure.patientData) -> RandomScores] :
       FinishPredict(riskScores)
  \/ \E i \in 1..Len(results) : SelectPatient(i)
  \/ AddRow
  \/ \E index \in 1..Len(patientData) : DeleteRow(index)

LoadedSpec == LoadedInit /\ [][LoadedNext]_vars

\* the delay of a run ends: the timer of setTimeout fires, and the run goes on
PageLive ==
  /\ PageSpec
  /\ WF_vars(\E riskScores \in [1..Len(run.closure.patientData) -> RandomScores] :
               FinishPredict(riskScores))

\* ------------------------------------------------------------- the claims

Bands == {"Low", "Intermediate", "High"}

\* a reference with both thresholds numbers and q33 <= q66
OrderedRef(riskRef) ==
  /\ riskRef.present
  /\ riskRef.q33.t = "num"
  /\ riskRef.q66.t = "num"
  /\ NumLeq(riskRef.q33, riskRef.q66)

\* C1 as stated: for every numeric score and every reference with q33 <= q66
\* (q33 = q66 included) the band is one of Low, Intermediate, High; a score
\* equal to q33 is Low, a score equal to q66 is Intermediate, a score above
\* q66 is High.
C1_AsStated ==
  (Returned("classifyRisk") /\ OrderedRef(arg.riskRef)) =>
    /\ ret.group \in Bands
    /\ (arg.score = arg.riskRef.q33 => ret.group = "Low")
    /\ (arg.score = arg.riskRef.q66 => ret.group = "Intermediate")
    /\ ((arg.score.t = "num" /\ ~NumLeq(arg.score, arg.riskRef.q66))
          => ret.group = "High")

\* C1 amended: for every numeric score and every reference with q33 <= q66
\* the band is one of Low, Intermediate, High; a score equal to q33 is Low
\* (also when q33 = q66), a score equal to q66 is Intermediate when
\* q33 < q66, and a score above q66 is High.
C1_Bands ==
  (Returned("classifyRisk") /\ OrderedRef(arg.riskRef)) =>
    /\ ret.group \in Bands
    /\ (arg.score = arg.riskRef.q33 => ret.group = "Low")
    /\ ((arg.score = arg.riskRef.q66 /\ arg.riskRef.q33 # arg.riskRef.q66)
          => ret.group = "Intermediate")
    /\ ((arg.score.t = "num" /\ ~NumLeq(arg.score, arg.riskRef.q66))
          => ret.group = "High")

\* a score on the upper threshold of a reference with q33 < q66 was classified
C1_Witness ==
  /\ Returned("classifyRisk")
  /\ OrderedRef(arg.riskRef)
  /\ arg.riskRef.q33 # arg.riskRef.q66
  /\ arg.score = arg.riskRef.q66
  /\ ret.group = "Intermediate"

\* a reference that is absent or has a threshold undefined, null or NaN
MalformedRef(riskRef) ==
  \/ ~riskRef.present
  \/ riskRef.q33.t \in {"undef", "null", "nan"}
  \/ riskRef.q66.t \in {"undef", "null", "nan"}

\* C2: for every score and every absent or malformed reference (null
\* reference, q33 or q66 undefined, null or NaN) classifyRisk returns band
\* None and boundary None.
C2_MalformedRefGivesNone ==
  (Returned("classifyRisk") /\ MalformedRef(arg.riskRef)) => ret = NoRisk

\* the indexes of the samples at or before the target time
AtOrBefore(survivalData, targetTime) ==
  {i \in 1..Len(survivalData) : survivalData[i].time <= targetTime}

MaxOf(S) == CHOOSE x \in S : \A y \in S : y <= x
MinOf(S) == CHOOSE x \in S : \A y \in S : x <= y

\* C3: on a curve ordered by time, getSurvivalAtTime returns the probability
\* of the last sample whose time is <= the target, the first sample's
\* probability when no sample qualifies, and 1 on an empty curve; on a
\* non-empty curve the result is the probability of one of the samples.
C3_StepLookup ==
  Returned("getSurvivalAtTime") =>
    LET d == arg.survivalData
        q == AtOrBefore(d, arg.targetTime)
    IN  /\ Len(d) = 0 => ret = FullSurvival
        /\ (Len(d) > 0 /\ q = {}) => ret = d[1].probability
        /\ q # {} => ret = d[MaxOf(q)].probability
        /\ Len(d) > 0 => \E i \in 1..Len(d) : ret = d[i].probability

\* the curve (0,1.0),(30,0.9),(60,0.8) was queried at 45 and gave 0.9
C3_Witness ==
  /\ Returned("getSurvivalAtTime")
  /\ arg.survivalData = <<[time |-> 0, probability |-> 10],
                          [time |-> 30, probability |-> 9],
                          [time |-> 60, probability |-> 8]>>
  /\ arg.targetTime = 45
  /\ ret = 9

PriorityList == <<"Sample", "Patient_ID", "patient_id", "PatientID", "id", "ID">>

\* the places of the priority list whose name is among the columns
PresentPriorities(cols) ==
  {k \in 1..Len(PriorityList) : \E i \in 1..Len(cols) : cols[i] = PriorityList[k]}

\* C7: detectIdColumn returns the earliest entry of the priority list that
\* occurs among the columns, whatever the order of the columns, and null when
\* none occurs; a returned name is one of the columns.
C7_EarliestCandidate ==
  Returned("detectIdColumn") =>
    LET present == PresentPriorities(arg)
    IN  /\ present = {} => ret = NoColumn
        /\ present # {} =>
             /\ ret = Column(PriorityList[MinOf(present)])
             /\ \E i \in 1..Len(arg) : arg[i] = ret.name

\* a lower-priority candidate stands before a higher-priority one in the
\* columns, and the higher-priority one was returned
C7_Witness ==
  /\ Returned("detectIdColumn")
  /\ arg = <<"Name", "ID", "Sample">>
  /\ ret = Column("Sample")

\* the stated table: I=1, II=2, III=3, IV=4, V=5, and 0 for any other text
TableValue(numeral) ==
  CASE numeral = <<"I">> -> 1
    [] numeral = <<"I", "I">> -> 2
    [] numeral = <<"I", "I", "I">> -> 3
    [] numeral = <<"I", "V">> -> 4
    [] numeral = <<"V">> -> 5
    [] OTHER -> 0

\* s[i..i+4] spells stage in any letter case, s[i+5..j-1] is white space and
\* s[j..k-1] is one or more of the letters I, V, X in any letter case
PatternAt(s, i, j, k) ==
  /\ i + 5 <= j /\ j < k /\ k <= Len(s) + 1
  /\ toUpperCase(SubSeq(s, i, i + 4)) = <<"S", "T", "A", "G", "E">>
  /\ \A x \in (i + 5)..(j - 1) : IsSpace(s[x])
  /\ \A x \in j..(k - 1) : UpperChar(s[x]) \in {"I", "V", "X"}

\* where the pattern matches in s
MatchStarts(s) ==
  {i \in 1..Len(s) : \E j \in 1..(Len(s) + 1) : \E k \in 1..(Len(s) + 1) :
     PatternAt(s, i, j, k)}

\* the whole numeral of the leftmost match: its longest run of letters
MatchedNumeral(s) ==
  LET i == MinOf(MatchStarts(s))
      j == CHOOSE x \in 1..(Len(s) + 1) : \E k \in 1..(Len(s) + 1) : PatternAt(s, i, x, k)
      k == MaxOf({x \in 1..(Len(s) + 1) : PatternAt(s, i, j, x)})
  IN  SubSeq(s, j, k - 1)

\* an input that is stringified: not null, undefined or NaN
Stringified(v) == v.t \in {"str", "num"}

StageCall == Returned("parseStageOrdinal")

\* C4 as stated: for every input parseStageOrdinal returns a non-negative integer.
C4_AsStated ==
  StageCall => (ret.t = "num" /\ ret.d = 0 /\ ret.n >= 0)

\* the input is decided before the numeric branch: it is null, undefined or
\* NaN, it matches the stage pattern, or it is a plain numeral of the table
BeforeNumericBranch(v) ==
  \/ ~Stringified(v)
  \/ MatchStarts(String(v)) # {}
  \/ TableValue(toUpperCase(trim(String(v)))) # 0

\* C4 amended: for every input parseStageOrdinal returns a number that is
\* never NaN; the result is a non-negative integer (0 to 5) whenever the input
\* is null, undefined or NaN, matches the stage pattern or is a plain numeral
\* of the table; only the numeric-parse branch returns other numbers, which
\* may be negative or fractional.
C4_NumberNeverNaN ==
  StageCall =>
    /\ ret.t = "num"
    /\ BeforeNumericBranch(arg) => (ret.d = 0 /\ ret.n \in 0..5)

\* the text 2.2 was encoded as the fraction 2.2
C4_Witness ==
  /\ StageCall
  /\ arg = Str(<<"2", ".", "2">>)
  /\ ret = Num(22, 1)

\* C5: whenever the stringified input matches stage + optional white space +
\* letters of I, V, X (any letter case), the result is the table value of the
\* whole matched numeral and 0 when the table lacks it; the plain-numeral and
\* numeric branches are not consulted.
C5_StageMatchIsTerminal ==
  (StageCall /\ Stringified(arg) /\ MatchStarts(String(arg)) # {}) =>
    ret = Whole(TableValue(toUpperCase(MatchedNumeral(String(arg)))))

\* a text with a numeric prefix and a matched numeral the table lacks gave 0
C5_Witness ==
  /\ StageCall
  /\ arg = Str(<<"2", "S", "t", "a", "g", "e", " ", "I", "X">>)
  /\ ret = Whole(0)

\* digits, with or without one point: 12, 1.5, 1., .5
IsMantissa(x) ==
  /\ \E i \in 1..Len(x) : IsDigit(x[i])
  /\ \A i \in 1..Len(x) : IsDigit(x[i]) \/ x[i] = "."
  /\ Cardinality({i \in 1..Len(x) : x[i] = "."}) <= 1

\* an exponent part: e or E, an optional sign, one or more digits
IsExponent(x) ==
  /\ Len(x) >= 2
  /\ x[1] \in {"e", "E"}
  /\ LET digits == IF x[2] \in {"+", "-"} THEN SubSeq(x, 3, Len(x)) ELSE Tail(x)
     IN  digits # <<>> /\ AllDigits(digits)

\* the whole text is a floating-point literal
IsFloatText(x) ==
  LET u == IF x # <<>> /\ x[1] \in {"+", "-"} THEN Tail(x) ELSE x
  IN  \E k \in 0..Len(u) :
        /\ IsMantissa(SubSeq(u, 1, k))
        /\ k = Len(u) \/ IsExponent(SubSeq(u, k + 1, Len(u)))

\* the number a floating-point literal spells
FloatValue(x) == SignedDecimal(x, 1).val

\* the lengths of the leading parts of x that are floating-point literals
NumericPrefixes(x) == {k \in 1..Len(x) : IsFloatText(SubSeq(x, 1, k))}

\* the stringified input, trimmed and upper-cased
PlainText(v) == toUpperCase(trim(String(v)))

\* an input that reaches the plain-numeral and numeric branches
Unmatched(v) == Stringified(v) /\ MatchStarts(String(v)) = {}

\* C6 as stated: null, undefined and NaN give 0; an input that does not match
\* the stage pattern gives the table value when its trimmed upper-cased text
\* is a table key, else the number the whole trimmed text spells when it
\* parses as a floating-point number, and 0 when it does not.
C6_AsStated ==
  StageCall =>
    /\ ~Stringified(arg) => ret = Whole(0)
    /\ Unmatched(arg) =>
         ret = IF TableValue(PlainText(arg)) # 0
               THEN Whole(TableValue(PlainText(arg)))
               ELSE IF IsFloatText(PlainText(arg))
                    THEN FloatValue(PlainText(arg))
                    ELSE Whole(0)

\* C6 amended: as stated, except that the numeric branch is parseFloat: the
\* result is the number spelled by the longest leading part of the trimmed
\* upper-cased text that is a floating-point literal (2.5 gives 2.5, 2a gives
\* 2), and 0 when no leading part is one.
C6_PlainAndNumericBranches ==
  StageCall =>
    /\ ~Stringified(arg) => ret = Whole(0)
    /\ Unmatched(arg) =>
         ret = IF TableValue(PlainText(arg)) # 0
               THEN Whole(TableValue(PlainText(arg)))
               ELSE IF NumericPrefixes(PlainText(arg)) # {}
                    THEN FloatValue(SubSeq(PlainText(arg), 1,
                                           MaxOf(NumericPrefixes(PlainText(arg)))))
                    ELSE Whole(0)

\* a text with a numeric prefix and a trailing letter gave the prefix's number
C6_Witness ==
  /\ StageCall
  /\ arg = Str(<<"2", "a">>)
  /\ ret = Whole(2)

\* the rows came back: as many records as rows, with the first row's columns
\* in order, and every value equal, an empty string allowed to come back null
SameScalar(original, back) ==
  back = original \/ (original = Str(<<>>) /\ back = Null)

\* C8: exporting a dataset of N >= 1 records of uniform columns and parsing
\* the exported text again yields N records with the same column names in
\* the same order and equal values, only empty strings coming back as null.
C8_RoundTrip ==
  Returned("exportThenParse") =>
    /\ Len(ret.records) = Len(arg)
    /\ \A r \in 1..Len(arg) :
         /\ ObjKeys(ret.records[r]) = ObjKeys(arg[1])
         /\ \A c \in 1..Len(arg[r]) :
              SameScalar(arg[r][c].val, ObjGet(ret.records[r], arg[r][c].key))

Quote == "\""

\* the comma at index i of the line is outside quotes: an even number of
\* double quotes stands before it
UnquotedComma(line, i) ==
  /\ line[i] = ","
  /\ Cardinality({j \in 1..(i - 1) : line[j] = Quote}) % 2 = 0

UnquotedCommas(line) == {i \in 1..Len(line) : UnquotedComma(line, i)}

\* the index of the m-th unquoted comma; 0 before the first field and
\* Len(line) + 1 after the last
FieldCut(line, m) ==
  IF m = 0 THEN 0
  ELSE IF m > Cardinality(UnquotedCommas(line)) THEN Len(line) + 1
  ELSE CHOOSE i \in UnquotedCommas(line) :
         Cardinality({j \in UnquotedCommas(line) : j < i}) = m - 1

NotQuote(c) == c # Quote

\* the m-th field: the text between two unquoted commas, without its double
\* quotes, trimmed
FieldText(line, m) ==
  trim(SelectSeq(SubSeq(line, FieldCut(line, m - 1) + 1, FieldCut(line, m) - 1),
                 NotQuote))

\* C9: parseCSVLine returns 1 + (number of commas outside quotes) fields; no
\* field holds a double quote; a comma inside quotes is content of its field;
\* every field is trimmed; after an unterminated quote the rest of the line
\* is the last field.
C9_FieldsOfLine ==
  Returned("parseCSVLine") =>
    /\ Len(ret) = 1 + Cardinality(UnquotedCommas(arg))
    /\ \A m \in 1..Len(ret) :
         /\ ret[m] = FieldText(arg, m)
         /\ ~Contains(ret[m], Quote)
         /\ ret[m] = trim(ret[m])

\* the line "a,a", gave the two fields a,a and the empty field
C9_Witness ==
  /\ Returned("parseCSVLine")
  /\ arg = <<Quote, "a", ",", "a", Quote, ",">>
  /\ ret = <<<<"a", ",", "a">>, <<>>>>

\* the trimmed text of the data field of a two-line text: all after the header line
DataField(text) == trim(SubSeq(text, 3, Len(text)))

\* a text of the header line h and one data line
OneFieldText(text) == Len(text) >= 2 /\ text[1] = "h" /\ text[2] = "\n"

\* C10: the value stored for a data field is null when its trimmed text is
\* empty, NA or NaN; a number exactly when the trimmed text parses fully as a
\* decimal number; and the trimmed text itself in every other case.
C10_FieldCoercion ==
  (Returned("parseCSV") /\ OneFieldText(arg) /\ Len(ret) = 1) =>
    LET f == DataField(arg)
        v == ret[1][1].val
    IN  v = IF f \in {<<>>, <<"N", "A">>, <<"N", "a", "N">>} THEN Null
            ELSE IF IsFloatText(f) THEN FloatValue(f)
            ELSE Str(f)


\* ---- the lines of a text, counted from its line ends

LineEnds(text) == {i \in 1..Len(text) : text[i] = "\n"}

LineCount(text) == 1 + Cardinality(LineEnds(text))

\* the index of the n-th line end; 0 before the first line and Len(text) + 1
\* after the last
LineCut(text, n) ==
  IF n = 0 THEN 0
  ELSE IF n > Cardinality(LineEnds(text)) THEN Len(text) + 1
  ELSE CHOOSE i \in LineEnds(text) :
         Cardinality({j \in LineEnds(text) : j < i}) = n - 1

NthLine(text, n) == SubSeq(text, LineCut(text, n - 1) + 1, LineCut(text, n) - 1)

FieldCount(line) == 1 + Cardinality(UnquotedCommas(line))

\* the fields of a line, in order
DeclaredFields(line) == [m \in 1..FieldCount(line) |-> FieldText(line, m)]

Blank(line) == trim(line) = <<>>

\* C11: every record parseCSV produces has exactly the header's column names
\* as its keys, in header order; values past the header's length are dropped,
\* and a line with fewer values than the header has null for every missing
\* trailing column.
C11_HeaderKeys ==
  Returned("parseCSV") =>
    LET text == trim(arg)
        header == DeclaredFields(NthLine(text, 1))
    IN  \A r \in 1..Len(ret) :
          /\ ObjKeys(ret[r]) = header
          /\ \A m \in 1..Len(header) :
               m > FieldCount(NthLine(text, r + 1)) => ret[r][m].val = Null


\* ---- the header and the data lines of a text

NonBlankLines(text) == {n \in 1..LineCount(text) : ~Blank(NthLine(text, n))}

NonEmptyLines(text) == {n \in 1..LineCount(text) : NthLine(text, n) # <<>>}

\* the first line that is not blank
HeaderIndex(text) == MinOf(NonBlankLines(text))

KeySet(record) == {record[i].key : i \in 1..Len(record)}

FieldSet(line) == {FieldText(line, m) : m \in 1..FieldCount(line)}

\* C12 as stated: parseCSV returns for every text; the header is the first
\* non-blank line; and every line after the header gives one record, whatever
\* it holds (only empty lines ending the text are not counted as lines).
C12_AsStated ==
  Returned("parseCSV") =>
    IF NonBlankLines(arg) = {} THEN ret = <<>>
    ELSE /\ Len(ret) = MaxOf(NonEmptyLines(arg)) - HeaderIndex(arg)
         /\ \A r \in 1..Len(ret) :
              KeySet(ret[r]) = FieldSet(NthLine(arg, HeaderIndex(arg)))

\* C12: parseCSV returns for every text; the header is the first non-blank
\* line; every line after the header, up to the last non-blank line, gives
\* one record, whatever it holds; the blank lines that end the text give
\* none, and a blank text gives no record.
C12_LinesToRecords ==
  Returned("parseCSV") =>
    IF NonBlankLines(arg) = {} THEN ret = <<>>
    ELSE /\ Len(ret) = MaxOf(NonBlankLines(arg)) - HeaderIndex(arg)
         /\ \A r \in 1..Len(ret) :
              KeySet(ret[r]) = FieldSet(NthLine(arg, HeaderIndex(arg)))

\* an empty line before the header and an empty line after it: the header is
\* the line a, and the empty line and the line 1 give one record each
C12_Witness ==
  /\ Returned("parseCSV")
  /\ arg = <<"\n", "a", "\n", "\n", "1">>
  /\ Len(ret) = 2
  /\ ObjKeys(ret[1]) = <<<<"a">>>>
  /\ ret[1][1].val = Null
  /\ ret[2][1].val = Whole(1)


\* ---- the exported text

RECURSIVE Glue(_, _, _)
\* the first n parts, one separator between two of them
Glue(parts, sep, n) ==
  IF n = 0 THEN <<>>
  ELSE IF n = 1 THEN parts[1]
  ELSE Glue(parts, sep, n - 1) \o <<sep>> \o parts[n]

\* how a value shows in the exported text
ExpectedCell(v) ==
  IF v \in {Null, Undefined} THEN <<>>
  ELSE IF v.t = "str" /\ (\E i \in 1..Len(v.s) : v.s[i] = ",")
       THEN <<Quote>> \o v.s \o <<Quote>>
  ELSE IF v.t = "str" THEN v.s
  ELSE String(v)

\* the value a record holds for a key, undefined when it has no such key
Held(record, key) ==
  IF \E i \in 1..Len(record) : record[i].key = key
  THEN (CHOOSE e \in {record[i] : i \in 1..Len(record)} : e.key = key).val
  ELSE Undefined

ExpectedLine(keys, record) ==
  Glue([c \in 1..Len(keys) |-> ExpectedCell(Held(record, keys[c]))], ",", Len(keys))

\* no key and no string value of the records holds a line end
OneLineCells(data) ==
  \A r \in 1..Len(data) : \A c \in 1..Len(data[r]) :
    /\ ~Contains(data[r][c].key, "\n")
    /\ ~Contains(data[r][c].val.s, "\n")

\* C13: for N >= 1 records exportToCSV downloads the text whose first line is
\* the keys of the first record, in their order, joined by commas, followed by
\* one line per record in order; in a line each of those keys shows as the
\* empty text for null or undefined, in double quotes for a string holding a
\* comma, and as its plain text otherwise; N + 1 rows joined by line ends.
C13_ExportedText ==
  (Returned("exportToCSV") /\ Len(arg) >= 1) =>
    LET keys == [c \in 1..Len(arg[1]) |-> arg[1][c].key]
        rows == <<Glue(keys, ",", Len(keys))>>
                  \o [r \in 1..Len(arg) |-> ExpectedLine(keys, arg[r])]
    IN  /\ ret.download
        /\ ret.content = Glue(rows, "\n", Len(arg) + 1)
        /\ OneLineCells(arg) => LineCount(ret.content) = Len(arg) + 1

\* two records, the second without the column b: a quoted cell, a number, a
\* null and a missing value
C13_Witness ==
  /\ Returned("exportToCSV")
  /\ arg = <<MakeRow(<<<<"a">>, <<"b">>>>, <<Str(<<"a", ",", "b">>), Whole(1)>>, <<>>),
             MakeRow(<<<<"a">>>>, <<Null>>, <<>>)>>
  /\ ret.content = <<"a", ",", "b", "\n",
                     Quote, "a", ",", "b", Quote, ",", "1", "\n",
                     ",">>


\* ---- the type of an uploaded file

\* the name ends with the suffix, the case of its letters left aside
EndsIgnoringCase(name, suffix) ==
  /\ Len(name) >= Len(suffix)
  /\ \A i \in 1..Len(suffix) :
       UpperChar(name[Len(name) - Len(suffix) + i]) = UpperChar(suffix[i])

DelimitedName(name) == EndsIgnoringCase(name, <<".", "c", "s", "v">>)

SpreadsheetName(name) ==
  \/ EndsIgnoringCase(name, <<".", "x", "l", "s", "x">>)
  \/ EndsIgnoringCase(name, <<".", "x", "l", "s">>)

\* C15: readUploadedFile looks at the lower-cased suffix of the name only: a
\* name ending in .csv, in any case, is read as text and parsed as delimited
\* text; a name ending in .xlsx or .xls goes to the spreadsheet reader; every
\* other name fails with the unsupported-file-type error and no content of
\* the file is read.
C15_SuffixDispatch ==
  Returned("readUploadedFile") =>
    IF DelimitedName(arg.name)
    THEN ret = Resolved("text", parseCSV(arg.text))
    ELSE IF SpreadsheetName(arg.name)
         THEN /\ ret.read = "arrayBuffer"
              /\ ret.ok = arg.readable
              /\ ret.ok => ret.data = arg.sheet
    ELSE /\ ~ret.ok
         /\ ret.read = "none"
         /\ ret.error = UnsupportedMessage

\* D.CSV was read as text and parsed
C15_Witness ==
  /\ Returned("readUploadedFile")
  /\ arg.name = <<"D", ".", "C", "S", "V">>
  /\ arg.text = <<"i", "d", "\n", "7">>
  /\ ret.read = "text"
  /\ Len(ret.data) = 1

\* the needle stands in the text
HasText(text, needle) ==
  \E i \in 1..(Len(text) - Len(needle) + 1) :
    SubSeq(text, i, i + Len(needle) - 1) = needle

IsLetter(c) == (\E i \in 1..26 : LowerChars[i] = c) \/ (\E i \in 1..26 : UpperChars[i] = c)

\* the suffix stands in the text with no letter after it
NamesSuffix(text, suffix) ==
  \E i \in 1..(Len(text) - Len(suffix) + 1) :
    /\ SubSeq(text, i, i + Len(suffix) - 1) = suffix
    /\ (i + Len(suffix) <= Len(text) => ~IsLetter(text[i + Len(suffix)]))

Dots(name) == {i \in 1..Len(name) : name[i] = "."}

\* the name from its last dot on
Extension(name) == SubSeq(name, MaxOf(Dots(name)), Len(name))

\* C16: the error of a file rejected as unsupported carries the name of the
\* file or its extension, and names every accepted suffix: .csv, .xlsx, .xls.
C16_RejectionMessage ==
  (Returned("readUploadedFile") /\ ~ret.ok /\ ret.read = "none" /\ Dots(arg.name) # {}) =>
    /\ HasText(ret.error, arg.name) \/ HasText(ret.error, Extension(arg.name))
    /\ NamesSuffix(ret.error, <<".", "c", "s", "v">>)
    /\ NamesSuffix(ret.error, <<".", "x", "l", "s", "x">>)
    /\ NamesSuffix(ret.error, <<".", "x", "l", "s">>)


\* C14: exporting no record does nothing: exportToCSV with zero records makes
\* no text and no download, and handleExport with empty results does not call
\* exportToCSV and shows no success toast.
C14_EmptyExportIsNoOp ==
  /\ (Returned("exportToCSV") /\ Len(arg) = 0) =>
        (~ret.download /\ ret.content = <<>>)
  /\ (Returned("handleExport") /\ Len(arg) = 0) =>
        (~ret.called /\ ~ret.export.download /\ ret.toast = NoToast)

\* exportToCSV was called with no record and downloaded nothing
C14_Witness ==
  /\ Returned("exportToCSV")
  /\ arg = <<>>
  /\ ~ret.download

\* ---- a prediction request

\* C19: a prediction request made with no model bundle, or with an empty
\* dataset, is rejected with an error toast and changes nothing: nothing is
\* handed to setResults, setSelectedPatient or setIsProcessing, and no run
\* is started.
C19_RejectedRequest ==
  (Returned("handlePredict")
     /\ (~arg.closure.modelBundle.loaded \/ Len(arg.closure.patientData) = 0)) =>
    /\ ~ret.started
    /\ ret.setResults = <<>>
    /\ ret.setSelectedPatient = <<>>
    /\ ret.setIsProcessing = <<>>
    /\ ret.toast.kind = "error"

\* a request with a model bundle and no row was rejected
C19_Witness ==
  /\ Returned("handlePredict")
  /\ arg.closure.modelBundle = MockModelBundle
  /\ arg.closure.patientData = <<>>
  /\ ~ret.started
  /\ ret.toast = Toast("error", "Please upload both model and patient data", <<>>)

\* ---- the page

\* C17: in every reachable state of the page the identifier column is
\* absent or one of the columns of the current dataset.
C17_IdColumnInColumns ==
  idColumn.found =>
    \E i \in 1..Len(columns) : columns[i] = Spelling[idColumn.name]

\* the results of the run that closed over c, for some scores
RunOutput(c, rows) ==
  /\ Len(rows) = Len(c.patientData)
  /\ \A i \in 1..Len(rows) :
       /\ rows[i].riskScore \in RandomScores
       /\ rows[i] = Prediction(c, c.patientData[i], i, rows[i].riskScore)
       /\ rows[i].patientId = PatientIdOf(c.patientData[i], i, c.idColumn)

\* C18: when a prediction run completes, results is exactly the output of
\* that run: one result per row of the dataset the run was started on, in row
\* order, and no result of an earlier run is kept or merged.
C18_ResultsAreTheRun ==
  [][(run.active /\ ~run'.active) => RunOutput(run.closure, results')]_vars

\* a run over the two rows of d.csv has completed, with every budgeted step
\* taken, and results holds its two predictions in row order
C18_Witness ==
  /\ ~run.active
  /\ ~isProcessing
  /\ used = MaxSteps
  /\ Len(patientData) = 2
  /\ Len(results) = 2
  /\ results[1].patientId = <<"7">>
  /\ results[2].patientId = <<"8">>
  /\ results[1].riskGroup = "High"
  /\ results[2].riskGroup = "Low"

\* the file whose read ends in this step with its records
Loads(file) ==
  /\ file \in reads
  /\ file \notin reads'
  /\ Read[file].ok

\* the key list of the first record, or no column for no record
FirstKeys(data) == IF data = <<>> THEN <<>> ELSE ObjKeys(data[1])

\* C20: after a successful data upload patientData is exactly the records
\* read from the file, columns is the key list of the first of them (empty
\* for no record), idColumn is detectIdColumn of those columns and results
\* is empty.
C20_UploadReplacesDataset ==
  [][\A file \in PageFiles :
       Loads(file) =>
         /\ patientData' = Read[file].data
         /\ columns' = FirstKeys(Read[file].data)
         /\ idColumn' =
              detectIdColumn([i \in 1..Len(columns') |-> NameOf(columns'[i])])
         /\ results' = <<>>]_vars

\* e.CSV was loaded over a dataset whose first patient, 7, a run had selected:
\* the one record and the one column of e.CSV are held, with no identifier
\* column and no result
C20_Witness ==
  /\ reads = {}
  /\ dataFile = Str(<<"e", ".", "C", "S", "V">>)
  /\ selectedPatient = Str(<<"7">>)
  /\ Len(patientData) = 1
  /\ columns = <<<<"a">>>>
  /\ idColumn = NoColumn
  /\ results = <<>>

\* ---- the records of the dataset

\* the names in the column list
ColumnSet == {columns[k] : k \in 1..Len(columns)}

\* the step is a saved cell, an added row or a deleted row
EditStep ==
  \/ SaveEdit
  \/ AddRow
  \/ \E index \in 1..Len(patientData) : DeleteRow(index)

\* C21: after any sequence of uploads, cell edits, added rows and deleted
\* rows every record of the dataset has exactly the column list as its key
\* set, one key for each column, and the column list is left as it is by the
\* edits, the additions and the deletions.
C21_RecordsShareColumns ==
  /\ [](\A i \in 1..Len(patientData) :
          /\ KeySet(patientData[i]) = ColumnSet
          /\ Len(patientData[i]) = Len(columns))
  /\ [][EditStep => columns' = columns]_vars

\* d.csv was loaded, the cell a of its first row was set to 5 and a row was
\* added: the new row holds null in column a, as the second row does
C21_Witness ==
  /\ dataFile = Str(<<"d", ".", "c", "s", "v">>)
  /\ columns = <<<<"i", "d">>, <<"a">>>>
  /\ Len(patientData) = 3
  /\ ObjGet(patientData[1], <<"a">>) = Whole(5)
  /\ ObjGet(patientData[2], <<"a">>) = Null
  /\ ObjGet(patientData[3], <<"a">>) = Null
  /\ ObjKeys(patientData[3]) = columns

\* ---- generateMockSurvivalData

\* C22: for every horizon maxDays >= 0 and every risk score the samples are
\* at the times 0, 30, 60, ... up to the largest multiple of 30 that is at
\* most maxDays, floor(maxDays / 30) + 1 of them, strictly increasing in
\* time, with the horizon 3650 when none is given; the first sample is at
\* time 0 with probability 1.
C22_SampleTimes ==
  Returned("generateMockSurvivalData") =>
    LET horizon == IF arg.maxDays = Undefined THEN 3650 ELSE arg.maxDays.n
    IN  /\ Len(ret) = horizon \div 30 + 1
        /\ \A i \in 1..Len(ret) : ret[i].time = 30 * (i - 1)
        /\ \A i \in 1..(Len(ret) - 1) : ret[i].time < ret[i + 1].time
        /\ ret[Len(ret)].time <= horizon
        /\ ret[Len(ret)].time + 30 > horizon
        /\ ret[1] = [time |-> 0, probability |-> FullSurvival]

\* a horizon of 60 days gave the three samples at 0, 30 and 60
C22_Witness ==
  /\ Returned("generateMockSurvivalData")
  /\ arg.maxDays = Whole(60)
  /\ Len(ret) = 3
  /\ ret[3].time = 60

\* C23: for every risk score, the negative ones too, every generated sample
\* has a probability in [0, 1] and the probabilities do not increase with
\* time (the decay rate being floored at zero).
C23_ProbabilitiesDecay ==
  Returned("generateMockSurvivalData") =>
    /\ \A i \in 1..Len(ret) :
         ret[i].probability >= 0 /\ ret[i].probability <= FullSurvival
    /\ \A i \in 1..(Len(ret) - 1) : ret[i + 1].probability <= ret[i].probability

\* ---- a saved cell

\* what a saved cell is to hold for the text entered: null for a blank text
\* and for the token NA, the number for a numeric text, the text otherwise
Entered(text) ==
  IF trim(text) = <<>> \/ text = <<"N", "A">> THEN Null
  ELSE IF StringToNumber(text).t = "num" THEN StringToNumber(text)
  ELSE Str(text)

\* C24: in the patient data editor, saving a cell whose text is blank or the
\* token NA stores null in that cell; other text is stored as a number when
\* it is numeric and as the string otherwise; and only the edited cell of
\* the edited row changes.
C24_SavedCell ==
  [][SaveEdit =>
       /\ Len(patientData') = Len(patientData)
       /\ ObjGet(patientData'[editingCell.row], editingCell.col) = Entered(editValue)
       /\ \A i \in 1..Len(patientData) :
            /\ ObjKeys(patientData'[i]) = ObjKeys(patientData[i])
            /\ \A k \in 1..Len(patientData[i]) :
                 (i # editingCell.row \/ patientData[i][k].key # editingCell.col)
                   => patientData'[i][k] = patientData[i][k]]_vars

\* ---- the comparison chart

\* two fractions are the same number
SameNumber(v, w) == v.num * w.den = w.num * v.den

\* the fraction v lies between the probabilities p and q
Between(v, p, q) ==
  \/ p * v.den <= v.num /\ v.num <= q * v.den
  \/ q * v.den <= v.num /\ v.num <= p * v.den

\* the samples of points nearest before the time, and nearest after it
LatestBefore(points, time) ==
  {j \in 1..Len(points) :
     /\ points[j].time < 2 * time
     /\ \A k \in 1..Len(points) :
          points[k].time < 2 * time => points[k].time <= points[j].time}

EarliestAfter(points, time) ==
  {j \in 1..Len(points) :
     /\ points[j].time > 2 * time
     /\ \A k \in 1..Len(points) :
          points[k].time > 2 * time => points[k].time >= points[j].time}

\* v is the value for the time when no sample of points is taken as a whole:
\* the linear interpolation between the bracketing samples, lying between
\* their probabilities, or with samples on one side only the probability of
\* the nearest of them
Bridged(points, time, v) ==
  IF LatestBefore(points, time) # {} /\ EarliestAfter(points, time) # {}
  THEN \E b \in LatestBefore(points, time) : \E a \in EarliestAfter(points, time) :
         /\ SameNumber(v, Interpolated(points[b], points[a], time))
         /\ Between(v, points[b].probability, points[a].probability)
  ELSE \E j \in LatestBefore(points, time) \cup EarliestAfter(points, time) :
         SameNumber(v, Fraction(points[j].probability, 1))

\* the samples of points at the time
SamplesAt(points, time) == {j \in 1..Len(points) : points[j].time = 2 * time}

\* the time of the k-th point of the returned chart data
PointTime(k) == ObjGet(ret[k], <<"t", "i", "m", "e">>).num

\* C25: in the comparison of several curves, for every curve and every merged
\* time: a sample of the curve that has the time gives the value; otherwise,
\* with samples before and after, the value is the linear interpolation
\* between the two bracketing samples and lies between their probabilities;
\* otherwise it is the probability of the nearest end of the curve.
C25_ChartValues ==
  Returned("chartData") =>
    \A k \in 1..Len(ret) : \A i \in 1..Len(arg) :
      arg[i].data # <<>> =>
        /\ HasKey(ret[k], arg[i].patientId)
        /\ LET v == ObjGet(ret[k], arg[i].patientId)
               points == arg[i].data
           IN  IF SamplesAt(points, PointTime(k)) # {}
               THEN \E j \in SamplesAt(points, PointTime(k)) :
                      SameNumber(v, Fraction(points[j].probability, 1))
               ELSE Bridged(points, PointTime(k), v)

\* ---- an upload during a run

\* C26: under every interleaving of a data upload with a prediction run that
\* waits on its delay, once the upload has loaded its records results stays
\* empty until a run started after it completes: a run started on the
\* dataset before never writes its results over the new dataset.
C26_NoStaleResults ==
  [][(run.active /\ run.replaced /\ ~run'.active) => results' = <<>>]_vars

\* ---- the run and the predict control

\* C27: every prediction run that starts sets isProcessing to true and in
\* the end sets it back to false; while isProcessing is true the predict
\* control is disabled, so that a run starts only when none is in flight.
C27_OneRunAtATime ==
  /\ [][ClickPredict => ~run.active /\ ~isProcessing /\ isProcessing']_vars
  /\ [](run.active => isProcessing)
  /\ [](isProcessing => ~PredictEnabled)
  /\ (run.active ~> (~run.active /\ ~isProcessing))

\* a run on the two rows of d.csv is in flight: isProcessing is true and the
\* predict control, shown with the model bundle, is disabled
C27_Witness ==
  /\ run.active
  /\ isProcessing
  /\ modelBundle.loaded
  /\ Len(patientData) = 2
  /\ run.closure.patientData = patientData
  /\ ~PredictEnabled

\* ---- the identifiers of added rows

\* the identifier of the row at index i of rows
IdOf(rows, i) == ObjGet(rows[i], Spelling[idColumn.name])

\* C28: after any sequence of added and deleted rows on a dataset that has
\* an identifier column, the identifier Add Row gives the new row differs
\* from the identifier of every row the dataset holds already.
C28_FreshIdentifier ==
  [][(AddRow /\ idColumn.found) =>
       \A i \in 1..Len(patientData) :
         IdOf(patientData, i) # IdOf(patientData', Len(patientData'))]_vars

\* ---- the results and the settings

\* C29: in every reachable state with results, the sampled probabilities of
\* each result are for exactly the selected timepoints, in their order, so
\* that the S(t=..y) columns of the table stand over the cells of each row.
C29_TimepointsLineUp ==
  \A i \in 1..Len(results) :
    [k \in 1..Len(results[i].survivalProbabilities) |->
       results[i].survivalProbabilities[k].year] = selectedTimepoints

\* C30: in every reachable state with results and a selected patient, the
\* selected patient id is the id of one of the results.
C30_SelectedAmongResults ==
  (results # <<>> /\ Truthy(selectedPatient)) =>
    \E i \in 1..Len(results) : Str(results[i].patientId) = selectedPatient

=============================================================================
